---- MODULE Spec2Model ----
(***************************************************************************)
(* A model of the imc package: Project construction from a metadata table  *)
(* (imc/data_models/project.py), the project's cluster assignments and     *)
(* their CSV file, and the segmentation wrapper (imc/segmentation.py).     *)
(***************************************************************************)
EXTENDS Integers, Sequences, FiniteSets, TLC

VARIABLES
    metadata,                   \* Project.metadata: the rows of the table, in order
    columns,                    \* metadata.columns
    sample_name_attribute,      \* Project.sample_name_attribute
    toggle,                     \* Project.toggle
    sample_grouping_attributes, \* the argument of Project.__init__ (<<>> is None)
    no_metadata,                \* whether Project.metadata is None
    processed_dir,              \* Project.processed_dir on disk
    prj,                        \* the outcome of each construction
    dirs,                       \* the directories that exist on disk
    clusters,                   \* Project._clusters
    sample_clusters,            \* the clusters each Sample holds
    csv,                        \* the cluster-assignment CSV file
    written,                    \* the Series the CSV file was last written from
    last,                       \* the last call on the project and its outcome
    roi,                        \* the ROI given to the segmentation
    files,                      \* the ROI's mask and figure files on disk
    seg,                        \* the last segmentation call and its outcome
    args,                       \* the parsed command line of segment_stacks
    disk,                       \* the files the command sees: path and content
    run,                        \* the position and the locals of segment_stacks.main
    stats,                      \* the position and the tables of sample_comparisons
    adj,                        \* the position, the workers and the ROIs of measure_adjacency
    lookup,                     \* the last call of get_samples or get_rois and what it gave
    ilp                         \* the position, the arguments and the files of inspect_ilastik_model

metaVars == <<metadata, columns, sample_name_attribute, toggle,
              sample_grouping_attributes, no_metadata, processed_dir>>
clusterVars == <<clusters, sample_clusters, csv, written, last>>
segVars == <<roi, files, seg>>
scriptVars == <<args, disk, run>>
statVars == <<stats>>
adjVars == <<adj>>
lookupVars == <<lookup>>
ilastikVars == <<ilp>>
toolVars == <<scriptVars, statVars, adjVars, lookupVars, ilastikVars>>
vars == <<metaVars, prj, dirs, clusterVars, segVars, toolVars>>

(***************************************************************************)
(* Bounds of the model.                                                    *)
(***************************************************************************)
MaxRows == 3
MaxObjId == 1
MaxChannels == 2

(***************************************************************************)
(* Program constants (project.py:38-44).                                   *)
(***************************************************************************)
DEFAULT_PROJECT_NAME == "project"
DEFAULT_SAMPLE_NAME_ATTRIBUTE == "sample_name"
DEFAULT_SAMPLE_GROUPING_ATTRIBUTEs == <<DEFAULT_SAMPLE_NAME_ATTRIBUTE>>
DEFAULT_TOGGLE_ATTRIBUTE == "toggle"

(***************************************************************************)
(* The metadata tables of the model.  A row is a record over the three     *)
(* possible columns; `columns` says which of them the table has (a column  *)
(* the table lacks holds a fixed filler that nothing reads).               *)
(***************************************************************************)
AllColumns == {"sample_name", "sample_id", "toggle"}
ColumnSets ==
    { AllColumns, {"sample_name", "sample_id"}, {"sample_id", "toggle"} }
SampleNames == {"s1", "s2"}
SampleIds == {"a", "b"}
Row == [sample_name : SampleNames, sample_id : SampleIds, toggle : BOOLEAN]
RowsOver(cols) ==
    { r \in Row : /\ ("sample_name" \notin cols => r.sample_name = "s1")
                  /\ ("toggle" \notin cols => r.toggle = TRUE) }
RECURSIVE Tables(_, _)
Tables(cols, n) ==
    IF n = 0 THEN { <<>> }
    ELSE LET shorter == Tables(cols, n - 1)
         IN  shorter \cup { Append(t, r) : t \in { s \in shorter : Len(s) = n - 1 },
                                            r \in RowsOver(cols) }
ResultsDirs == {"results", "results2"}
ProjectIds == {1, 2}

NoProject ==
    [status |-> "none", results_dir |-> "", samples |-> <<>>, rois |-> <<>>,
     warned |-> <<>>]

\* The processed directory: whether it exists, and the directories in it in
\* the order iterdir() lists them, each with the ROI stacks it holds.
NoProcessed == [exists |-> FALSE, subdirs |-> <<>>]
Subdir(name, rois) == [name |-> name, rois |-> rois]
ProcessedDirs ==
    { NoProcessed,
      [exists |-> TRUE, subdirs |-> <<>>],
      [exists |-> TRUE, subdirs |-> <<Subdir("s1", <<>>)>>],
      [exists |-> TRUE, subdirs |-> <<Subdir("s2", <<>>), Subdir("s1", <<>>)>>],
      [exists |-> TRUE, subdirs |-> <<Subdir("s1", <<"r1">>)>>],
      [exists |-> TRUE, subdirs |-> <<Subdir("s2", <<>>), Subdir("s1", <<"r1", "r2">>)>>] }

(***************************************************************************)
(* The file system: pathlib.Path.mkdir(), which imc.types.Path inherits    *)
(* unchanged (parents=False, exist_ok=False).                              *)
(***************************************************************************)
Cwd == "."
Parent(path) ==
    CASE path = "results/single_cell" -> "results"
      [] path = "results2/single_cell" -> "results2"
      [] OTHER -> Cwd

mkdir(path, ds) ==
    IF path \in ds THEN [err |-> "FileExistsError", dirs |-> ds]
    ELSE IF Parent(path) \notin ds THEN [err |-> "FileNotFoundError", dirs |-> ds]
    ELSE [err |-> "", dirs |-> ds \cup {path}]

(***************************************************************************)
(* Project._initialize_project_from_annotation (project.py:191-244).       *)
(***************************************************************************)
\* types.py:43-46 and project.py:172-189: the table _detect_samples makes of
\* the directories in processed_dir (subfolder_per_sample is True), with the
\* one column sample_name; a missing directory lists nothing
detect_samples ==
    LET content == IF processed_dir.exists THEN processed_dir.subdirs ELSE <<>>
    IN  [ table |-> [i \in 1..Len(content) |->
                        [sample_name |-> content[i].name, sample_id |-> "a",
                         toggle |-> TRUE]],
          columns |-> IF content = <<>> THEN {} ELSE {DEFAULT_SAMPLE_NAME_ATTRIBUTE},
          warned |-> IF content = <<>> THEN <<"no samples">> ELSE <<>> ]

\* project.py:200-204: the table the Samples are built from
Table == IF no_metadata THEN detect_samples.table ELSE metadata
TableColumns == IF no_metadata THEN detect_samples.columns ELSE columns

\* No row is removed.
ToggleKeepsAll(md) == md

\* project.py:209-211: rows without an active toggle are removed
ToggleFiltered(md) ==
    IF toggle /\ (DEFAULT_TOGGLE_ATTRIBUTE \in TableColumns)
    THEN SelectSeq(md, LAMBDA r : r[DEFAULT_TOGGLE_ATTRIBUTE])
    ELSE md

\* project.py:108-110 and 213-217 (the inner argument is always None)
GroupingAttributes ==
    IF sample_grouping_attributes # <<>>
    THEN sample_grouping_attributes
    ELSE DEFAULT_SAMPLE_GROUPING_ATTRIBUTEs

GroupKey(r, attrs) == [i \in 1..Len(attrs) |-> r[attrs[i]]]

RECURSIVE FirstSeen(_, _, _)
FirstSeen(md, attrs, acc) ==
    IF md = <<>> THEN acc
    ELSE LET k == GroupKey(Head(md), attrs)
         IN  FirstSeen(Tail(md), attrs,
                       IF \E i \in 1..Len(acc) : acc[i] = k
                       THEN acc ELSE Append(acc, k))

\* the order of the values, as pandas sorts them
ValueRank(v) ==
    CASE v = "a" -> 1 [] v = "b" -> 2 [] v = "s1" -> 3 [] v = "s2" -> 4

RECURSIVE KeyLess(_, _)
KeyLess(k1, k2) ==
    /\ k1 # <<>>
    /\ \/ ValueRank(Head(k1)) < ValueRank(Head(k2))
       \/ Head(k1) = Head(k2) /\ KeyLess(Tail(k1), Tail(k2))

RECURSIVE SortKeys(_)
SortKeys(ks) ==
    IF ks = <<>> THEN <<>>
    ELSE LET least == CHOOSE i \in 1..Len(ks) :
                          \A j \in 1..Len(ks) : j = i \/ KeyLess(ks[i], ks[j])
             rest == [j \in 1..(Len(ks) - 1) |-> IF j < least THEN ks[j] ELSE ks[j + 1]]
         IN  <<ks[least]>> \o SortKeys(rest)

\* groupby(..., sort=True): the groups in the order of their sorted keys
groupby_sorted(md, attrs) == SortKeys(FirstSeen(md, attrs, <<>>))

\* project.py:219-221: groupby(..., sort=False).groups, the keys of the groups
\* in the order of their first row
groupby(md, attrs) == FirstSeen(md, attrs, <<>>)

\* every column, constant in the group or not
cols_all(rows) == TableColumns

\* project.py:197-198
cols_with_unique_values(rows) ==
    { col \in TableColumns :
        Cardinality({ rows[i][col] : i \in 1..Len(rows) }) = 1 }

\* project.py:226-239: the Sample of one group (key is the loop's `_`)
NewSample(key, rows, const_cols) ==
    [ name     |-> rows[1][sample_name_attribute],
      key      |-> key,
      metadata |-> IF Len(rows) > 1 THEN rows ELSE <<>>,
      attrs    |-> [ c \in const_cols \ {"sample_name"} |-> rows[1][c] ] ]

\* project.py:219-244: one Sample per group, appended in the groups' order;
\* row[self.sample_name_attribute] raises KeyError when that column is not
\* among the constant ones
RECURSIVE BuildSamples(_, _, _, _)
BuildSamples(md, attrs, keys, acc) ==
    IF keys = <<>> THEN [status |-> "ok", samples |-> acc]
    ELSE LET rows == SelectSeq(md, LAMBDA r : GroupKey(r, attrs) = Head(keys))
             const_cols == cols_with_unique_values(rows)
         IN  IF sample_name_attribute \notin const_cols
             THEN [status |-> "KeyError", samples |-> acc]
             ELSE BuildSamples(md, attrs, Tail(keys),
                               Append(acc, NewSample(Head(keys), rows, const_cols)))

initialize_project_from_annotation ==
    IF Table = <<>> THEN [status |-> "ok", samples |-> <<>>]
    ELSE LET md == ToggleFiltered(Table)
             attrs == GroupingAttributes
         IN  IF \E i \in 1..Len(attrs) : attrs[i] \notin TableColumns
             THEN [status |-> "KeyError", samples |-> <<>>]
             ELSE BuildSamples(md, attrs, groupby(md, attrs), <<>>)

\* Sample.rois: the ROI stacks found in the Sample's directory
\* processed_dir/<sample name>, none when there is no such directory
sample_rois(name) ==
    IF processed_dir.exists /\ \E i \in 1..Len(processed_dir.subdirs) :
                                  processed_dir.subdirs[i].name = name
    THEN LET i == CHOOSE j \in 1..Len(processed_dir.subdirs) :
                      processed_dir.subdirs[j].name = name
         IN  [n \in 1..Len(processed_dir.subdirs[i].rois) |->
                 <<name, processed_dir.subdirs[i].rois[n]>>]
    ELSE <<>>

\* project.py:246-251: Project.rois
RECURSIVE rois_of(_)
rois_of(samples) ==
    IF samples = <<>> THEN <<>>
    ELSE sample_rois(Head(samples).name) \o rois_of(Tail(samples))

\* project.py:86-144: Project.__init__ with results_dir = rd
ProjectInit(rd, ds) ==
    LET made == mkdir(rd, ds)
    IN  IF made.err # ""
        THEN [prj |-> [NoProject EXCEPT !.status = made.err, !.results_dir = rd],
              dirs |-> ds]
        ELSE LET built == initialize_project_from_annotation
                 detected == IF no_metadata THEN detect_samples.warned ELSE <<>>
             IN  IF built.status # "ok"
                 THEN [prj |-> [status |-> built.status, results_dir |-> rd,
                                samples |-> built.samples, rois |-> <<>>,
                                warned |-> detected],
                       dirs |-> made.dirs]
                 ELSE [prj |-> [status |-> "ok", results_dir |-> rd,
                                samples |-> built.samples,
                                rois |-> rois_of(built.samples),
                                warned |-> detected \o
                                    (IF rois_of(built.samples) = <<>>
                                     THEN <<"no ROIs">> ELSE <<>>)],
                       dirs |-> made.dirs]

(***************************************************************************)
(* Cluster assignments: a Series keyed by (sample, roi, obj_id), and the   *)
(* CSV file results_dir/single_cell/<name>.single_cell.cluster_assignments *)
(* .csv (project.py:289-306, 664-775).                                     *)
(***************************************************************************)
id_cols == <<"sample", "roi", "obj_id">>

\* A Series: the names of its index levels, whether the index is a
\* MultiIndex, its name, and its values by index key.  None is no Series.
None == [none |-> TRUE, levels |-> <<>>, multi |-> FALSE, name |-> "", data |-> <<>>]
Series(levels, multi, name, data) ==
    [none |-> FALSE, levels |-> levels, multi |-> multi, name |-> name, data |-> data]

\* A cluster label is a string or an integer; text is what to_csv prints.
StrLabel(t) == [kind |-> "str", text |-> t]
IntLabel(t) == [kind |-> "int", text |-> t]
Labels == { StrLabel("1"), StrLabel("T") }
IsNumeric(t) == t \in {"1", "2"}

RoiOf(sample) == IF sample = "s1" THEN "r1" ELSE "r2"
KeySpace == { <<sample, RoiOf(sample), obj>> : sample \in SampleNames, obj \in 1..MaxObjId }
Uniform(keys, label) == Series(id_cols, TRUE, "cluster", [k \in keys |-> label])
\* what single_cell_analysis derives: a label for every cell of the ROIs
DerivedSeries ==
    { Uniform(KeySpace, StrLabel("1")),
      Series(id_cols, TRUE, "cluster",
             [k \in KeySpace |-> IF k[1] = "s1" THEN StrLabel("1") ELSE StrLabel("T")]) }
ValidSeries ==
    { Uniform(keys, StrLabel("T")) : keys \in (SUBSET KeySpace) \ { {} } }
        \cup DerivedSeries
InvalidSeries ==
    { Series(<<"sample", "roi">>, TRUE, "cluster",
             [k \in { <<"s1", "r1">> } |-> StrLabel("T")]),
      Series(<<"roi", "sample", "obj_id">>, TRUE, "cluster",
             [k \in { <<"r1", "s1", 1>> } |-> StrLabel("T")]),
      Series(<<"sample", "roi", "cell">>, TRUE, "cluster",
             [k \in { <<"s1", "r1", 1>> } |-> StrLabel("T")]),
      Series(<<"obj_id">>, FALSE, "cluster",
             [k \in { <<1>> } |-> StrLabel("T")]) }
UnnamedSeries ==
    { Series(id_cols, TRUE, "0", [k \in KeySpace |-> StrLabel("T")]) }
SeriesInputs == ValidSeries \cup InvalidSeries \cup UnnamedSeries

\* project.py:289-306: the parent directory of the CSV file
SingleCellDir(rd) == IF rd = "results" THEN "results/single_cell" ELSE "results2/single_cell"

\* DataFrame.to_csv of clusters.reset_index(): one column per index level
\* and one named after the Series, the values printed as text
NoFile == [exists |-> FALSE, header |-> <<>>, body |-> <<>>]
to_csv(c) ==
    [exists |-> TRUE, header |-> c.levels \o <<c.name>>,
     body |-> [k \in DOMAIN c.data |-> c.data[k].text]]

\* project.py:735-741: pd.read_csv(fn, dtype={sample: str, roi: str})
\* .set_index(id_cols)["cluster"]; the dtype of the cluster column is
\* inferred: integers when every value is numeric, strings otherwise
read_csv(file) ==
    IF ~file.exists THEN [err |-> "FileNotFoundError", series |-> None]
    ELSE
    LET n == Len(file.header)
        Col(name) == { j \in 1..n : file.header[j] = name }
    IN  IF (\E i \in 1..Len(id_cols) : Col(id_cols[i]) = {}) \/ Col("cluster") = {}
        THEN [err |-> "KeyError", series |-> None]
        ELSE
        LET at == [i \in 1..Len(id_cols) |-> CHOOSE j \in Col(id_cols[i]) : TRUE]
            KeyOf(k) == [i \in 1..Len(id_cols) |-> k[at[i]]]
            numeric == \A k \in DOMAIN file.body : IsNumeric(file.body[k])
        IN  [err |-> "",
             series |-> Series(id_cols, TRUE, "cluster",
                               [key \in { KeyOf(k) : k \in DOMAIN file.body } |->
                                   LET k == CHOOSE q \in DOMAIN file.body : KeyOf(q) = key
                                   IN  IF numeric THEN IntLabel(file.body[k])
                                       ELSE StrLabel(file.body[k])])]

\* Series.astype(str)
astype_str(c) == [c EXCEPT !.data = [k \in DOMAIN c.data |-> StrLabel(c.data[k].text)]]

\* project.py:742-743: the two assertions on the index
IndexAccepted(c) == c.multi /\ c.levels = id_cols

\* project.py:746: clusters.loc[sample.name]
Unset == [set |-> FALSE, data |-> <<>>]

\* An indexing that keeps the entries of every Sample.
loc_all(c, name) ==
    [set |-> TRUE,
     data |-> [k \in { <<key[2], key[3]>> : key \in DOMAIN c.data }
                 |-> c.data[CHOOSE key \in DOMAIN c.data : <<key[2], key[3]>> = k]]]

loc(c, name) ==
    [set |-> TRUE,
     data |-> [k \in { <<key[2], key[3]>> : key \in { q \in DOMAIN c.data : q[1] = name } }
                 |-> c.data[<<name, k[1], k[2]>>]]]

\* IMCSample.set_clusters(clusters=part): the Sample stores what it is given
sample_set_clusters(sc, name, part) == [sc EXCEPT ![name] = part]

\* project.py:745-746: the Samples are given their part of the clusters in
\* order; .loc raises KeyError for a Sample without entries
RECURSIVE Propagate(_, _, _)
Propagate(names, c, sc) ==
    IF names = <<>> THEN [err |-> "", sample_clusters |-> sc]
    ELSE IF \A key \in DOMAIN c.data : key[1] # Head(names)
    THEN [err |-> "KeyError", sample_clusters |-> sc]
    ELSE Propagate(Tail(names), c, sample_set_clusters(sc, Head(names), loc(c, Head(names))))

\* The state a call works on, and the outcome of a call.
Outcome(result, st, given, returned) ==
    [result |-> result, given |-> given, returned |-> returned, clusters |-> st.clusters,
     sample_clusters |-> st.sample_clusters, dirs |-> st.dirs, csv |-> st.csv,
     written |-> st.written]

\* project.py:718-748: Project.set_clusters(clusters=arg, write_to_disk)
set_clusters(st, names, rd, arg, write_to_disk) ==
    LET made == mkdir(SingleCellDir(rd), st.dirs)
    IN  IF made.err # "" THEN Outcome(made.err, st, None, None)
        ELSE
        LET st1 == [st EXCEPT !.dirs = made.dirs]
            given == IF arg = None THEN read_csv(st.csv) ELSE [err |-> "", series |-> arg]
        IN  IF given.err # "" THEN Outcome(given.err, st1, None, None)
            ELSE IF ~IndexAccepted(given.series) THEN Outcome("AssertionError", st1, None, None)
            ELSE
            LET c == given.series
                prop == Propagate(names, c, st1.sample_clusters)
                st2 == [st1 EXCEPT !.clusters = c, !.sample_clusters = prop.sample_clusters]
            IN  IF prop.err # "" THEN Outcome(prop.err, st2, c, None)
                ELSE IF write_to_disk
                THEN Outcome("ok", [st2 EXCEPT !.csv = to_csv(c), !.written = c], c, None)
                ELSE Outcome("ok", st2, c, None)

\* The property Project.clusters as it would be if every read went to the
\* CSV file.
clusters_reread(st, names, rd) ==
    IF st.clusters # None /\ read_csv(st.csv).err = ""
    THEN Outcome("ok", st, None, read_csv(st.csv).series)
    ELSE IF st.clusters # None THEN Outcome("ok", st, None, st.clusters)
    ELSE LET out == set_clusters(st, names, rd, None, FALSE)
         IN  [out EXCEPT !.returned = out.clusters]

\* project.py:711-716: the property Project.clusters
clusters_property(st, names, rd) ==
    IF st.clusters # None THEN Outcome("ok", st, None, st.clusters)
    ELSE LET out == set_clusters(st, names, rd, None, FALSE)
         IN  [out EXCEPT !.returned = out.clusters]

\* project.py:664-709: Project.cluster_cells; derived is what
\* single_cell_analysis returns, and made_dir whether it left the output
\* directory on disk
cluster_cells(st, names, rd, derived, made_dir, set_attribute) ==
    LET st1 == IF made_dir /\ rd \in st.dirs
               THEN [st EXCEPT !.dirs = @ \cup {SingleCellDir(rd)}] ELSE st
    IN  IF SingleCellDir(rd) \notin st1.dirs THEN Outcome("FileNotFoundError", st1, None, None)
        ELSE
        LET st2 == [st1 EXCEPT !.csv = to_csv(derived), !.written = derived]
        IN  IF ~set_attribute THEN Outcome("ok", st2, None, derived)
            ELSE set_clusters(st2, names, rd, astype_str(derived), FALSE)

\* project.py:766: new_labels.to_dict(), a mapping of labels to new labels
NewLabels ==
    { (StrLabel("1") :> StrLabel("T")),
      (StrLabel("T") :> StrLabel("B")),
      (StrLabel("1") :> StrLabel("T") @@ StrLabel("T") :> StrLabel("1")) }

\* project.py:769: Series.replace(new_labels)
replace(c, new_labels) ==
    [c EXCEPT !.data = [k \in DOMAIN c.data |->
                          IF c.data[k] \in DOMAIN new_labels THEN new_labels[c.data[k]]
                          ELSE c.data[k]]]

\* project.py:768-775: Project._rename_clusters(new_labels, save)
rename_clusters(st, names, rd, new_labels, save) ==
    LET read == clusters_property(st, names, rd)
        st1 == [clusters |-> read.clusters, sample_clusters |-> read.sample_clusters,
                dirs |-> read.dirs, csv |-> read.csv, written |-> read.written]
    IN  IF read.result # "ok" THEN Outcome(read.result, st1, None, None)
        ELSE
        LET renamed == replace(read.returned, new_labels)
        IN  IF ~save THEN set_clusters(st1, names, rd, renamed, FALSE)
            ELSE IF SingleCellDir(rd) \notin st1.dirs
            THEN Outcome("FileNotFoundError", st1, None, None)
            ELSE set_clusters([st1 EXCEPT !.csv = to_csv(renamed), !.written = renamed],
                              names, rd, renamed, FALSE)

(***************************************************************************)
(* Segmentation (segmentation.py).  An image is the mean of a set of       *)
(* channels of the stack, or a stack of such means; of an array only the   *)
(* shape and the channels it was computed from are kept.                   *)
(***************************************************************************)
PredictSize == 256

ChannelLabels == {"DNA1", "CD45", "Ki67"}
\* Series.str.contains: the patterns a channel label contains
Contains(label, patt) ==
    \/ label = "DNA1" /\ patt = "DNA"
    \/ label = "Ki67" /\ patt = "Ki67"
    \/ label = "SMA" /\ patt = "SMA"

StackShapes == { <<3, 5>>, <<300, PredictSize>> }
NoExclude == [none |-> TRUE, mask |-> <<>>]
RECURSIVE LabelSeqs(_)
LabelSeqs(n) ==
    IF n = 0 THEN {}
    ELSE [1..n -> ChannelLabels] \cup LabelSeqs(n - 1)
ExcludesFor(labels) ==
    {NoExclude} \cup { [none |-> FALSE, mask |-> m] : m \in [1..Len(labels) -> BOOLEAN] }
ROIs ==
    UNION { { [channel_labels |-> l, channel_exclude |-> e, shape |-> sh] :
                e \in ExcludesFor(l), sh \in StackShapes } :
            l \in LabelSeqs(MaxChannels) }
\* the stacks given to segment_roi: with nuclear and other channels, without a
\* nuclear channel, without any channel matching a pattern, nuclear only
SegmentedROIs ==
    { [channel_labels |-> l, channel_exclude |-> NoExclude, shape |-> sh] :
        l \in { <<"DNA1", "CD45">>, <<"CD45", "Ki67">>, <<"CD45">>, <<"DNA1">> },
        sh \in StackShapes }
NoROI == [channel_labels |-> <<>>, channel_exclude |-> NoExclude, shape |-> <<>>]

\* np.asarray([eq(x) for x in stack[chs]]).mean(0): an H x W image, or the
\* scalar nan when no channel is selected
Mean(chs, shape) == [shape |-> IF chs = {} THEN <<>> ELSE shape, parts |-> <<chs>>]
NoImage == [shape |-> <<>>, parts |-> <<>>]

\* segmentation.py:26-28: the channels left after the exclusion
Kept(r) ==
    { i \in 1..Len(r.channel_labels) :
        r.channel_exclude.none \/ ~r.channel_exclude.mask[i] }

\* segmentation.py:31: the channels whose label contains DNA
nuclear_chs(r) == { i \in Kept(r) : Contains(r.channel_labels[i], "DNA") }

\* segmentation.py:37: the channels whose label matches none of DNA|Ki67|SMA
cyto_chs(r) ==
    { i \in Kept(r) : \A patt \in {"DNA", "Ki67", "SMA"} : ~Contains(r.channel_labels[i], patt) }

\* segmentation.py:18-43
prepare_stack(r, compartment) ==
    IF compartment \notin {"nuclear", "cytoplasm", "both"}
    THEN [err |-> "AssertionError", image |-> NoImage]
    ELSE
    LET nucl == Mean(nuclear_chs(r), r.shape)
        \* stack[~cyto_chs]: the channels that are not in cyto_chs
        cyto == Mean(Kept(r) \ cyto_chs(r), r.shape)
    IN  IF compartment = "nuclear" THEN [err |-> "", image |-> nucl]
        ELSE IF compartment = "cytoplasm" THEN [err |-> "", image |-> cyto]
        ELSE IF nucl.shape # cyto.shape THEN [err |-> "ValueError", image |-> NoImage]
        ELSE [err |-> "",
              image |-> [shape |-> <<2>> \o nucl.shape, parts |-> nucl.parts \o cyto.parts]]

\* skimage.transform.resize(image, output_shape): the shape of the result
resize(shape, output_shape) ==
    IF Len(output_shape) >= Len(shape) THEN output_shape
    ELSE output_shape \o SubSeq(shape, Len(output_shape) + 1, Len(shape))

\* numpy.squeeze: the axes of length one are removed
squeeze(shape) == SelectSeq(shape, LAMBDA n : n # 1)

\* segmentation.py:56-64
deepcell_resize_to_predict_shape(shape) ==
    IF Len(shape) = 2
    THEN [err |-> "", shape |-> <<1>> \o resize(shape, <<PredictSize, PredictSize>>) \o <<1>>]
    ELSE IF Len(shape) = 3
    THEN [err |-> "",
          shape |-> <<1>> \o resize(<<shape[2], shape[3], shape[1]>>,
                                    <<PredictSize, PredictSize, shape[1]>>)]
    ELSE [err |-> "ValueError", shape |-> <<>>]

\* segmentation.py:67-93: the applications label a batch of images; the
\* prediction has one channel, or two for compartment both
deepcell_segment(shape, compartment) ==
    LET predicted == [shape EXCEPT ![4] = IF compartment = "both" THEN 2 ELSE 1]
        pred == squeeze(predicted)
    IN  IF Len(pred) = 4 THEN resize(pred, SubSeq(shape, 2, Len(shape))) ELSE pred

\* the prediction handed back at the size it was made
keep_predict_shape(mask, image_shape) == mask

\* segmentation.py:172-175: the mask is resized to the image
resize_to_image(mask, image_shape) ==
    IF Len(image_shape) = 2 THEN resize(mask, SubSeq(image_shape, 1, 2))
    ELSE IF Len(image_shape) = 3 THEN resize(mask, SubSeq(image_shape, 2, 3) \o <<2>>)
    ELSE mask

\* segmentation.py:177-184: the compartments of mask_dict, in order
mask_dict(compartment) ==
    CASE compartment = "both" -> <<"cell", "nuclei">>
      [] compartment = "nuclear" -> <<"nuclei">>
      [] compartment = "cytoplasm" -> <<"cell">>
      [] OTHER -> <<>>

\* roi._get_input_filename(comp + "_mask") and the figure's file
MaskFile(comp) == IF comp = "cell" THEN "cell_mask" ELSE "nuclei_mask"
FigFile == "segmentation_svg"
FileNames == {"cell_mask", "nuclei_mask", FigFile}

\* a file is written whether it exists or not
write_always(overwrite, exists) == TRUE

\* segmentation.py:189 and 198
should_write(overwrite, exists) == overwrite \/ (~overwrite /\ ~exists)

\* stardist takes every compartment
stardist_accepts_any(compartment) == TRUE

\* segmentation.py:166: assert compartment == "nuclear"
stardist_accepts(compartment) == compartment = "nuclear"

\* segmentation.py:133-201: segment_roi(roi, model, compartment, save,
\* overwrite, plot_segmentation); fs is the files before the call
segment_roi(r, fs, model, compartment, save, overwrite, plot_segmentation) ==
    LET Raise(e) == [result |-> e, mask |-> <<>>, written |-> {}, files |-> fs]
    IN
    IF model \notin {"deepcell", "stardist"} THEN Raise("AssertionError")
    ELSE
    LET prepared == prepare_stack(r, compartment)
        image == prepared.image
    IN
    IF prepared.err # "" THEN Raise(prepared.err)
    ELSE IF model = "stardist" /\ ~stardist_accepts(compartment) THEN Raise("AssertionError")
    ELSE IF model = "stardist" /\ Len(image.shape) # 2 THEN Raise("ValueError")
    ELSE
    LET input_image == deepcell_resize_to_predict_shape(image.shape)
    IN
    IF model = "deepcell" /\ input_image.err # "" THEN Raise(input_image.err)
    ELSE
    LET mask == IF model = "stardist" THEN image.shape
                ELSE resize_to_image(deepcell_segment(input_image.shape, compartment),
                                     image.shape)
        comps == mask_dict(compartment)
        masks == IF save
                 THEN { MaskFile(comps[i]) : i \in 1..Len(comps) }
                 ELSE {}
        figs == IF plot_segmentation /\ save THEN {FigFile} ELSE {}
        saved == { f \in masks \cup figs : should_write(overwrite, fs[f] # "absent") }
    IN  [result |-> "ok", mask |-> mask, written |-> saved,
         files |-> [f \in FileNames |-> IF f \in saved THEN "new" ELSE fs[f]]]

NamesOf(p) == [i \in 1..Len(prj[p].samples) |-> prj[p].samples[i].name]

\* The index of a call's argument: what set_clusters checks of it.
IndexOf(c) == [none |-> c.none, levels |-> c.levels, multi |-> c.multi]

NoSeg ==
    [op |-> "none", model |-> "", compartment |-> "", save |-> FALSE, overwrite |-> FALSE,
     plot |-> FALSE, result |-> "", image |-> NoImage, mask |-> <<>>, written |-> {}]

NoCall ==
    [op |-> "none", index |-> IndexOf(None), flag |-> FALSE, result |-> "",
     given |-> None, returned |-> None, was_unset |-> TRUE, samples |-> <<>>]

(***************************************************************************)
(* The segment_stacks command (scripts/segment_stacks.py).  A path is the  *)
(* sequence of the pieces of its name; a file on disk is a path with what  *)
(* the file holds.                                                         *)
(***************************************************************************)
MaxTiffs == 2

TiffPaths == { <<"a", "_full", ".tiff">>, <<"b", ".tiff">>, <<"c", ".tif">> }
\* the channel labels in the CSV file of a stack, when it has one
LabelsOf(tiff) == IF tiff[1] = "a" THEN <<"DNA1", "CD45">> ELSE <<"DNA1", "Ki67">>
StackShape == <<3, 5>>

\* types.py:40-41: Path(str(self).replace(patt, repl))
RECURSIVE replace_(_, _, _)
replace_(path, patt, repl) ==
    IF path = <<>> THEN <<>>
    ELSE IF Len(path) >= Len(patt) /\ SubSeq(path, 1, Len(patt)) = patt
    THEN repl \o replace_(SubSeq(path, Len(patt) + 1, Len(path)), patt, repl)
    ELSE <<Head(path)>> \o replace_(Tail(path), patt, repl)

\* Path.exists() and the content of a file
Exists(d, path) == \E f \in d : f.path = path
Content(d, path) == (CHOOSE f \in d : f.path = path).content
WriteFile(d, path, content) ==
    { f \in d : f.path # path } \cup { [path |-> path, content |-> content] }
StackContent == [kind |-> "stack", labels |-> <<>>]
LabelsContent(labels) == [kind |-> "labels", labels |-> labels]
Written(kind) == [kind |-> kind, labels |-> <<>>]

\* segment_stacks.py:110-129: the values the parser admits
ArgSets ==
    [ model : {"stardist", "deepcell"},
      compartment : {"nuclear", "cytoplasm", "both"},
      channel_exclude : {"", "DNA"},
      save : BOOLEAN, overwrite : BOOLEAN, plot : BOOLEAN ]
RECURSIVE TiffLists(_)
TiffLists(n) ==
    IF n = 0 THEN {} ELSE [1..n -> TiffPaths] \cup TiffLists(n - 1)

\* segment_stacks.py:62-71: the ROI_mock of a TIFF and its channel_exclude
ROI_mock(tiff, channel_labels_file, labels, channel_exclude) ==
    [ stack_file |-> tiff,
      channel_labels_file |-> channel_labels_file,
      name |-> SelectSeq(SubSeq(tiff, 1, Len(tiff) - 1), LAMBDA t : t # "_full"),
      channel_exclude |->
          [none |-> FALSE,
           mask |-> [i \in 1..Len(labels) |->
                        channel_exclude # "" /\ Contains(labels[i], channel_exclude)]] ]

NoRun ==
    [pc |-> "idle", i |-> 0, rois |-> <<>>, warnings |-> <<>>, segmented |-> <<>>,
     wrote |-> <<>>, ret |-> -1, error |-> "", phase |-> ""]
NoArgs ==
    [tiffs |-> <<>>, model |-> "", compartment |-> "", channel_exclude |-> "",
     save |-> FALSE, overwrite |-> FALSE, plot |-> FALSE]

IdleScript ==
    /\ args = NoArgs
    /\ disk = {}
    /\ run = NoRun

(***************************************************************************)
(* Project.sample_comparisons (project.py:777-979): the tests between the  *)
(* groups of samples.  A sample of values is the sequence of its values in *)
(* ascending order; a mean is <<sum, count>>, a ratio of means <<x, y>> in *)
(* lowest terms, and <<0, 0>> is NaN.                                      *)
(***************************************************************************)
\* project.py:827-831 and 848-852: the tables are sorted by the attribute, so
\* the groups come in ascending order
GroupLists ==
    { <<"COVID", "Healthy">>, <<"Healthy", "Sick">>, <<"COVID", "Sick">>,
      <<"COVID", "Healthy", "Sick">>, <<"Healthy", "Healthy_old">>,
      <<"Healthy_old", "Sick">> }
Channels == <<"CD45">>
Clusters == <<"1", "2">>
\* the channel means of the ROIs of a group, and the cell counts of a
\* cluster in them (no row for a ROI without cells of the cluster)
ChannelValues == { <<1>>, <<1, 2>> }
ClusterValues == { <<>>, <<1>>, <<2>> }
Libraries == {"scipy < 1.7", "scipy >= 1.7"}

NaN == <<0, 0>>
RECURSIVE Sum(_)
Sum(a) == IF a = <<>> THEN 0 ELSE Head(a) + Sum(Tail(a))
RECURSIVE GCD(_, _)
GCD(x, y) == IF y = 0 THEN x ELSE GCD(y, x % y)

\* Series.mean()
mean(a) == IF a = <<>> THEN NaN ELSE <<Sum(a), Len(a)>>
\* np.log2(a.mean() / b.mean()), kept as the ratio
log2_fold(a, b) ==
    IF a = <<>> \/ b = <<>> THEN NaN
    ELSE LET x == Sum(a) * Len(b)
             y == Sum(b) * Len(a)
         IN  << x \div GCD(x, y), y \div GCD(x, y) >>
\* -log2_fold and abs(log2_fold)
negated(fold) == <<fold[2], fold[1]>>
abs(fold) == IF fold[1] >= fold[2] THEN fold ELSE negated(fold)

\* scipy.stats.mannwhitneyu(a, b): the statistic is that of the first
\* sample, the p-value depends on the two samples and not on their order;
\* ValueError is raised when all numbers are identical (scipy < 1.7) or
\* when a sample is empty (scipy >= 1.7)
mannwhitneyu(a, b, library) ==
    IF \/ library = "scipy < 1.7" /\ \A i \in 1..Len(a \o b) : (a \o b)[i] = (a \o b)[1]
       \/ library = "scipy >= 1.7" /\ (a = <<>> \/ b = <<>>)
    THEN [err |-> "ValueError", stat |-> <<>>, p_value |-> {}]
    ELSE [err |-> "", stat |-> <<a, b>>, p_value |-> {a, b}]

\* the test without the handler: the error is left to the caller
test_or_raise(a, b, library) == mannwhitneyu(a, b, library)

\* project.py:874-877 and 935-938: ValueError gives (nan, nan)
test_or_nan(a, b, library) ==
    LET mu == mannwhitneyu(a, b, library)
    IN  IF mu.err = "ValueError" THEN [err |-> "", stat |-> <<>>, p_value |-> {}]
        ELSE mu

\* itertools.permutations(groups, 2): the pairs in order
RECURSIVE permutations(_, _, _)
permutations(groups, i, j) ==
    IF i > Len(groups) THEN <<>>
    ELSE IF j > Len(groups) THEN permutations(groups, i + 1, 1)
    ELSE (IF i = j THEN <<>> ELSE << <<groups[i], groups[j]>> >>)
            \o permutations(groups, i, j + 1)

\* project.py:862-880 and 923-941: the rows of one channel or cluster
RECURSIVE group_rows(_, _, _, _, _)
group_rows(item, pairs, data, library, acc) ==
    IF pairs = <<>> THEN [err |-> "", rows |-> acc]
    ELSE LET group1 == Head(pairs)[1]
             group2 == Head(pairs)[2]
             a == data[<<item, group1>>]
             b == data[<<item, group2>>]
             mu == test_or_nan(a, b, library)
         IN  IF mu.err # "" THEN [err |-> mu.err, rows |-> acc]
             ELSE group_rows(item, Tail(pairs), data, library,
                     Append(acc, [item |-> item, group1 |-> group1, group2 |-> group2,
                                  mean1 |-> mean(a), mean2 |-> mean(b),
                                  log2_fold |-> log2_fold(a, b),
                                  stat |-> mu.stat, p_value |-> mu.p_value]))

\* project.py:859-892 and 920-953: the table of all the comparisons
RECURSIVE comparisons(_, _, _, _, _)
comparisons(items, groups, data, library, acc) ==
    IF items = <<>> THEN [err |-> "", rows |-> acc]
    ELSE LET out == group_rows(Head(items), permutations(groups, 1, 1), data, library, acc)
         IN  IF out.err # "" THEN out
             ELSE comparisons(Tail(items), groups, data, library, out.rows)

\* project.py:898-905 and 959-966: drop_duplicates keeps the first of the
\* rows with the same item, abs_log2_fold and p_value (NaN equal to NaN)
drop_duplicates(rows) ==
    LET Key(r) == <<r.item, abs(r.log2_fold), r.p_value>>
        first == { i \in 1..Len(rows) : \A j \in 1..(i - 1) : Key(rows[j]) # Key(rows[i]) }
        RECURSIVE Pick(_)
        Pick(i) == IF i > Len(rows) THEN <<>>
                   ELSE (IF i \in first THEN <<rows[i]>> ELSE <<>>) \o Pick(i + 1)
    IN  Pick(1)

\* project.py:908 and 969: "Healthy" in row["group1"], a substring test
HasHealthy(group) == group \in {"Healthy", "Healthy_old"}

\* project.py:907-912 and 968-973: Healthy is put in the second column
reorder(rows) ==
    [i \in 1..Len(rows) |->
        IF HasHealthy(rows[i].group1)
        THEN [rows[i] EXCEPT !.group1 = rows[i].group2, !.group2 = "Healthy",
                             !.log2_fold = negated(@)]
        ELSE rows[i]]

NoTable ==
    [items |-> <<>>, groups |-> <<>>, data |-> <<>>, rows |-> <<>>, saved |-> <<>>]
NoStats ==
    [pc |-> "idle", library |-> "", error |-> "", channel |-> NoTable, cluster |-> NoTable]

\* project.py:859-917 (items the channels) and 920-979 (items the clusters)
test_between_attributes(items, groups, data, library) ==
    LET out == comparisons(items, groups, data, library, <<>>)
    IN  IF out.err # ""
        THEN [err |-> out.err,
              table |-> [items |-> items, groups |-> groups, data |-> data,
                         rows |-> out.rows, saved |-> <<>>]]
        ELSE [err |-> "",
              table |-> [items |-> items, groups |-> groups, data |-> data,
                         rows |-> out.rows,
                         saved |-> reorder(drop_duplicates(out.rows))]]

IdleStats == stats = NoStats

(***************************************************************************)
(* Project.measure_adjacency (project.py:1194-1267) on a project with the  *)
(* Samples s1 (ROIs r1, r2) and s2 (ROI r3).  parmap.map hands one task    *)
(* per ROI to a pool of worker processes, waits until all of them have     *)
(* finished, and returns the results in the order of the tasks, or raises  *)
(* the error of the first task that failed.                                *)
(***************************************************************************)
ProjectSamples ==
    << [name |-> "s1", rois |-> << <<"s1", "r1">>, <<"s1", "r2">> >>],
       [name |-> "s2", rois |-> << <<"s2", "r3">> >>] >>
ProjectRois == { <<"s1", "r1">>, <<"s1", "r2">>, <<"s2", "r3">> }
\* the arguments samples and rois: None or a list; in "x or default" None
\* and the empty list both are false, and are passed on as <<>>
NoneArg == [given |-> FALSE, list |-> <<>>]
ListArg(list) == [given |-> TRUE, list |-> list]
SampleArgs == { NoneArg, ListArg(<<>>), ListArg(<<1>>), ListArg(<<2, 1>>), ListArg(<<1, 1>>) }
RoiArgs ==
    { NoneArg, ListArg(<<>>), ListArg(<< <<"s1", "r1">> >>),
      ListArg(<< <<"s2", "r3">>, <<"s1", "r2">> >>) }

RECURSIVE Flatten(_)
Flatten(seqs) == IF seqs = <<>> THEN <<>> ELSE Head(seqs) \o Flatten(Tail(seqs))

\* project.py:279-287: <<>> (None or an empty list) selects everything
get_rois(samples, rois) ==
    LET chosen == IF samples = <<>> THEN ProjectSamples
                  ELSE [i \in 1..Len(samples) |-> ProjectSamples[samples[i]]]
    IN  Flatten([i \in 1..Len(chosen) |->
                    SelectSeq(chosen[i].rois,
                              LAMBDA r : rois = <<>> \/ \E j \in 1..Len(rois) : rois[j] = r)])

NoGraph == <<>>
\* what get_adjacency_graph and measure_cell_type_adjacency return for a ROI
GraphOf(r) == <<"graph", r>>
FreqOf(r) == <<"freqs", r>>

NoAdj ==
    [pc |-> "idle", rois |-> <<>>, missing |-> <<>>, pending |-> {}, done |-> <<>>,
     graph |-> <<>>, before |-> <<>>, fails_graph |-> {}, fails_freq |-> {},
     melted |-> <<>>, error |-> <<>>, samples |-> NoneArg, selection |-> NoneArg]

IdleAdj == adj = NoAdj

\* the results in the order in which the workers finished
map_results_unordered(tasks, done, results) ==
    [i \in 1..Len(tasks) |-> results[tasks[done[i]]]]

\* parmap.map: the results in the order of the tasks
map_results(tasks, done, results) == [i \in 1..Len(tasks) |-> results[tasks[i]]]

\* the error parmap.map raises: that of the first failed task to finish
first_failure(tasks, done, fails) ==
    LET failed == SelectSeq(done, LAMBDA i : tasks[i] \in fails)
    IN  IF failed = <<>> THEN <<>> ELSE tasks[Head(failed)]

\* project.py:1213-1214
RECURSIVE assign(_, _, _)
assign(graph, rois, gs) ==
    IF rois = <<>> THEN graph
    ELSE assign([graph EXCEPT ![Head(rois)] = Head(gs)], Tail(rois), Tail(gs))

\* A call that computes the graph of every selected ROI anew.
measure_adjacency_all(a, samples, rois) ==
    LET selected == get_rois(samples, rois)
    IN  [a EXCEPT !.rois = selected, !.missing = selected, !.before = a.graph,
                  !.done = <<>>,
                  !.pc = IF selected # <<>> THEN "graphs" ELSE "freqs",
                  !.pending = 1..Len(selected)]

\* project.py:1203-1211 and 1219: the ROIs are selected and the workers of
\* the ROIs without a graph are started, those of the frequencies if every
\* ROI has one
measure_adjacency(a, samples, rois) ==
    LET selected == get_rois(samples, rois)
        _rois == SelectSeq(selected, LAMBDA r : a.graph[r] = NoGraph)
    IN  [a EXCEPT !.rois = selected, !.missing = _rois, !.before = a.graph,
                  !.done = <<>>,
                  !.pc = IF _rois # <<>> THEN "graphs" ELSE "freqs",
                  !.pending = IF _rois # <<>> THEN 1..Len(_rois) ELSE 1..Len(selected)]

\* the graphs of the tasks that succeeded are assigned before the error is
\* raised
collect_graphs_partial(a) ==
    LET failed == first_failure(a.missing, a.done, a.fails_graph)
        ok == SelectSeq(a.missing, LAMBDA r : r \notin a.fails_graph)
        assigned == assign(a.graph, ok, [i \in 1..Len(ok) |-> GraphOf(ok[i])])
    IN  IF failed # <<>>
        THEN [a EXCEPT !.pc = "raised", !.error = <<"graph", failed>>, !.graph = assigned]
        ELSE [a EXCEPT !.graph = assigned, !.pc = "freqs", !.done = <<>>,
                       !.pending = 1..Len(a.rois)]

\* project.py:1211-1219: parmap.map returns or raises; the graphs are
\* assigned and the workers of the frequencies are started
collect_graphs(a) ==
    LET failed == first_failure(a.missing, a.done, a.fails_graph)
    IN  IF failed # <<>>
        THEN [a EXCEPT !.pc = "raised", !.error = <<"graph", failed>>]
        ELSE [a EXCEPT !.graph = assign(a.graph, a.missing,
                                        map_results(a.missing, a.done,
                                                    [r \in ProjectRois |-> GraphOf(r)])),
                       !.pc = "freqs", !.done = <<>>, !.pending = 1..Len(a.rois)]

\* project.py:1219-1237: parmap.map returns or raises; every table is
\* labelled with the sample and the name of the ROI it is zipped with;
\* pd.concat raises ValueError when there is no table
collect_freqs(a) ==
    LET failed == first_failure(a.rois, a.done, a.fails_freq)
        freqs == map_results(a.rois, a.done, [r \in ProjectRois |-> FreqOf(r)])
    IN  IF failed # <<>>
        THEN [a EXCEPT !.pc = "raised", !.error = <<"freqs", failed>>]
        ELSE IF a.rois = <<>>
        THEN [a EXCEPT !.pc = "raised", !.error = <<"ValueError", <<>> >>]
        ELSE [a EXCEPT !.pc = "done",
                       !.melted = [i \in 1..Len(a.rois) |->
                                     [sample |-> a.rois[i][1], roi |-> a.rois[i][2],
                                      table |-> freqs[i]]]]

(***************************************************************************)
(* Project.get_samples and Project.get_rois (project.py:308-324) on the    *)
(* project with the Samples s1 (ROIs r1, r2) and s2 (ROI r3).  The names   *)
(* are a string or a list, of which only the membership is used.           *)
(***************************************************************************)
NamePool == {"s1", "s2", "r1", "r2", "r3", "x"}
NameArgs ==
    { [is_str |-> TRUE, names |-> {n}] : n \in NamePool }
        \cup { [is_str |-> FALSE, names |-> ns] : ns \in SUBSET NamePool }

NoLookup == [op |-> "none", names |-> {}, kind |-> "", value |-> <<>>]
IdleLookup == lookup = NoLookup

\* project.py:312-315 and 321-324: the single match, the list of matches,
\* or None: the ValueError is built and dropped
found_or_none(found) ==
    IF found # <<>>
    THEN [kind |-> IF Len(found) = 1 THEN "one" ELSE "list", value |-> found]
    ELSE [kind |-> "None", value |-> <<>>]

\* project.py:308-315
get_samples(sample_names) ==
    found_or_none(SelectSeq(ProjectSamples, LAMBDA sample : sample.name \in sample_names.names))

\* project.py:246-251: Project.rois
project_rois == Flatten([i \in 1..Len(ProjectSamples) |-> ProjectSamples[i].rois])

\* project.py:317-324: Project.get_rois
get_rois_named(roi_names) ==
    found_or_none(SelectSeq(project_rois, LAMBDA r : r[2] \in roi_names.names))

(***************************************************************************)
(* The command inspect_ilastik_model (scripts/inspect_ilastik_model.py).   *)
(* A path is the sequence of the parts of its name; of a model file the    *)
(* channels of its input data are kept.                                    *)
(***************************************************************************)
ModelPaths == { <<"m", ".ilp">>, <<"m", ".h5">> }
OutputPath == <<"out", ".ilp">>
NoPath == <<>>
ModelChannels == <<"c0", "c1", "c2">>
ModelContent(channels, newaxis) == [kind |-> "model", channels |-> channels, newaxis |-> newaxis]
EmptyContent == [kind |-> "empty", channels |-> <<>>, newaxis |-> FALSE]
OtherContent(kind) == [kind |-> kind, channels |-> <<>>, newaxis |-> FALSE]

\* inspect_ilastik_model.py:50-70: what parse_args gives; an option that is
\* omitted is None ("" and NoPath and NoneArg here)
IlastikArgs ==
    { a \in [ model_path : ModelPaths,
              plot : BOOLEAN, extract : BOOLEAN, convert : BOOLEAN,
              channels_to_plot : {"", "mean", "last"},
              labels_output_file : {NoPath},
              converted_model_output : {NoPath, OutputPath} \cup ModelPaths,
              channels_to_retain : {NoneArg, ListArg(<<-1>>), ListArg(<<0, 1>>)} ] :
        /\ a.converted_model_output \in ModelPaths => a.converted_model_output = a.model_path
        /\ ~a.plot => a.channels_to_plot = ""
        /\ ~a.convert => a.converted_model_output = NoPath /\ a.channels_to_retain = NoneArg }

NoIlastik ==
    [pc |-> "idle", args |-> <<>>, disk |-> {}, steps |-> <<>>, ret |-> -1, error |-> ""]
IdleIlastik == ilp = NoIlastik

\* inspect_ilastik_model.py:73-114: the model file is opened for reading
inspect_ilastik_model(d, model_path) ==
    IF Content(d, model_path).kind = "model"
    THEN [err |-> "", disk |-> d, step |-> [name |-> "inspect"]]
    ELSE [err |-> "OSError", disk |-> d, step |-> [name |-> "inspect"]]

\* inspect_ilastik_model.py:117-192: the last channel is plotted unless
\* channels_to_plot is "mean"; savefig takes the format from the file name
plot_training_data(d, model_path, channels_to_plot) ==
    LET shown == IF channels_to_plot = "mean" THEN "mean" ELSE "last"
        file == replace_(model_path, <<".ilp">>,
                         <<".labels.", IF channels_to_plot = "" THEN "None" ELSE channels_to_plot,
                           ".svg">>)
        step == [name |-> "plot", channels |-> shown, file |-> file]
    IN  IF file[Len(file)] # ".svg"
        THEN [err |-> "ValueError", disk |-> d, step |-> step]
        ELSE [err |-> "", disk |-> WriteFile(d, file, OtherContent("figure")), step |-> step]

\* inspect_ilastik_model.py:195-253: np.save appends .npy to a name
\* without it
extract_training_labels(d, model_path, output_path) ==
    LET out == IF output_path = NoPath
               THEN replace_(model_path, <<".ilp">>, <<".training_labels", ".npy">>)
               ELSE output_path
        file == IF out[Len(out)] = ".npy" THEN out ELSE out \o <<".npy">>
    IN  [err |-> "", disk |-> WriteFile(d, file, OtherContent("labels")),
         step |-> [name |-> "extract", file |-> file]]

\* array[..., channels_to_retain]: a list of indices picks those channels,
\* None adds an axis and keeps every channel
retain(channels, channels_to_retain) ==
    IF ~channels_to_retain.given THEN ModelContent(channels, TRUE)
    ELSE ModelContent([i \in 1..Len(channels_to_retain.list) |->
                         LET n == channels_to_retain.list[i]
                         IN  channels[IF n < 0 THEN Len(channels) + n + 1 ELSE n + 1]],
                      FALSE)

\* inspect_ilastik_model.py:256-290: the output file is opened for writing,
\* which empties it, before the input file is read
convert_model_data(d, input_model_path, output_model_path, channels_to_retain) ==
    LET out == IF output_model_path = NoPath
               THEN replace_(input_model_path, <<".ilp">>, <<".converted", ".ilp">>)
               ELSE output_model_path
        d1 == WriteFile(d, out, EmptyContent)
        d2 == WriteFile(d1, out, Content(d1, input_model_path))
        step == [name |-> "convert", file |-> out]
    IN  IF Content(d2, out).kind # "model"
        THEN [err |-> "OSError", disk |-> d2, step |-> step]
        ELSE [err |-> "",
              disk |-> WriteFile(d2, out, retain(Content(d2, out).channels, channels_to_retain)),
              step |-> step]

IdleTools == IdleScript /\ IdleStats /\ IdleAdj /\ IdleLookup /\ IdleIlastik

\* segment_stacks.py:53-72: one pass of the loop over args.tiffs
prepare_roi(r, d, a) ==
    LET tiff == a.tiffs[r.i]
        channel_labels_file == replace_(tiff, <<".tiff">>, <<".csv">>)
    IN  IF ~Exists(d, channel_labels_file)
        THEN { [r EXCEPT !.i = @ + 1, !.warnings = Append(@, tiff)] }
        ELSE IF Content(d, channel_labels_file).kind # "labels"
        \* pd.read_csv of a file that is not a CSV file
        THEN { [r EXCEPT !.pc = "raised", !.error = e] :
                 e \in {"UnicodeDecodeError", "ParserError"} }
        ELSE { [r EXCEPT !.i = @ + 1,
                         !.rois = Append(@, ROI_mock(tiff, channel_labels_file,
                                             Content(d, channel_labels_file).labels,
                                             a.channel_exclude))] }

\* the file names of segment_stacks.py:86-89 and 94-97
mask_file(stack_file, a) ==
    replace_(stack_file, <<".tiff">>,
             << (IF a.compartment = "nuclear" THEN "_nucmask" ELSE "_mask"), ".tiff" >>)
fig_file(stack_file, a) ==
    replace_(stack_file, <<"_full", ".tiff">>,
             <<"_segmentation_", a.model, "_", a.compartment, ".svg">>)

\* A mask that is written without regard to --no-save.
save_mask_unasked(a, exists) == a.overwrite \/ ~exists

\* segment_stacks.py:85 and 90: whether the mask is written
save_mask(a, exists) == a.save /\ (a.overwrite \/ ~exists)

\* segment_stacks.py:75-104: one pass of the loop over rois
segment_next(r, d, a) ==
    LET mock == r.rois[r.i]
    IN  IF Content(d, mock.stack_file).kind # "stack"
        \* the file no longer holds a stack with the channels of the labels
        THEN [run |-> [r EXCEPT !.pc = "raised", !.error = "IndexError"], disk |-> d]
        ELSE
        LET out == segment_roi([channel_labels |-> Content(d, mock.channel_labels_file).labels,
                                channel_exclude |-> mock.channel_exclude,
                                shape |-> StackShape],
                               [f \in FileNames |-> "absent"],
                               a.model, a.compartment, FALSE, a.overwrite, a.plot)
        IN  IF out.result # "ok"
            THEN [run |-> [r EXCEPT !.pc = "raised", !.error = out.result], disk |-> d]
            ELSE
            LET mf == mask_file(mock.stack_file, a)
                saves_mask == save_mask(a, Exists(d, mf))
                d1 == IF saves_mask THEN WriteFile(d, mf, Written("mask")) ELSE d
                ff == fig_file(mock.stack_file, a)
                save_fig == a.save /\ a.plot /\ (a.overwrite \/ (~a.overwrite /\ ~Exists(d1, ff)))
                d2 == IF save_fig THEN WriteFile(d1, ff, Written("figure")) ELSE d1
                w1 == IF saves_mask THEN <<[path |-> mf, kind |-> "mask"]>> ELSE <<>>
                w2 == IF save_fig THEN <<[path |-> ff, kind |-> "figure"]>> ELSE <<>>
            IN  [run |-> [r EXCEPT !.i = @ + 1,
                                   !.segmented = Append(@, mock.stack_file),
                                   !.wrote = @ \o w1 \o w2],
                 disk |-> d2]

(***************************************************************************)
(* Construction of projects from one metadata table.                       *)
(***************************************************************************)
InitProject ==
    /\ columns \in ColumnSets
    /\ metadata \in Tables(columns, MaxRows)
    /\ sample_name_attribute \in {"sample_name", "sample_id"}
    /\ toggle \in BOOLEAN
    /\ sample_grouping_attributes \in { <<>>, <<"sample_id">>, <<"sample_name", "sample_id">> }
    /\ no_metadata = FALSE
    /\ processed_dir = NoProcessed
    /\ prj = [p \in ProjectIds |-> NoProject]
    /\ dirs = {Cwd}
    /\ clusters = None
    /\ sample_clusters = <<>>
    /\ csv = NoFile
    /\ written = None
    /\ last = NoCall
    /\ roi = NoROI
    /\ files = [f \in FileNames |-> "absent"]
    /\ seg = NoSeg
    /\ IdleTools

Construct(p, rd) ==
    /\ prj[p].status = "none"
    /\ LET out == ProjectInit(rd, dirs)
       IN  /\ prj' = [prj EXCEPT ![p] = out.prj]
           /\ dirs' = out.dirs
    /\ UNCHANGED <<toolVars, metaVars, clusterVars, segVars>>

NextProject == \E p \in ProjectIds, rd \in ResultsDirs : Construct(p, rd)

SpecProject == InitProject /\ [][NextProject]_vars

(***************************************************************************)
(* Construction of projects without metadata, the Samples being detected   *)
(* in the processed directory, or from a table of at most one row.         *)
(***************************************************************************)
InitDetect ==
    /\ columns = AllColumns
    /\ no_metadata \in BOOLEAN
    /\ metadata \in IF no_metadata THEN { <<>> } ELSE Tables(AllColumns, 1)
    /\ sample_name_attribute = DEFAULT_SAMPLE_NAME_ATTRIBUTE
    /\ toggle \in BOOLEAN
    /\ sample_grouping_attributes = <<>>
    /\ processed_dir \in ProcessedDirs
    /\ prj = [p \in ProjectIds |-> NoProject]
    /\ dirs = {Cwd}
    /\ clusters = None
    /\ sample_clusters = <<>>
    /\ csv = NoFile
    /\ written = None
    /\ last = NoCall
    /\ roi = NoROI
    /\ files = [f \in FileNames |-> "absent"]
    /\ seg = NoSeg
    /\ IdleTools

SpecDetect == InitDetect /\ [][NextProject]_vars

(***************************************************************************)
(* The calls on the cluster assignments of one constructed project with    *)
(* the Samples s1 and s2.                                                  *)
(***************************************************************************)
InitClusters ==
    /\ columns = AllColumns
    /\ metadata = << [sample_name |-> "s1", sample_id |-> "a", toggle |-> TRUE],
                     [sample_name |-> "s2", sample_id |-> "b", toggle |-> TRUE] >>
    /\ sample_name_attribute = DEFAULT_SAMPLE_NAME_ATTRIBUTE
    /\ toggle = TRUE
    /\ sample_grouping_attributes = <<>>
    /\ no_metadata = FALSE
    /\ processed_dir = NoProcessed
    /\ LET out == ProjectInit("results", {Cwd})
       IN  /\ prj = [p \in ProjectIds |-> IF p = 1 THEN out.prj ELSE NoProject]
           /\ dirs = out.dirs
    /\ clusters = None
    /\ sample_clusters = [n \in SampleNames |-> Unset]
    /\ csv = NoFile
    /\ written = None
    /\ last = NoCall
    /\ roi = NoROI
    /\ files = [f \in FileNames |-> "absent"]
    /\ seg = NoSeg
    /\ IdleTools

CurState ==
    [clusters |-> clusters, sample_clusters |-> sample_clusters, dirs |-> dirs,
     csv |-> csv, written |-> written]

Apply(out, op, arg, flag, samples) ==
    /\ clusters' = out.clusters
    /\ sample_clusters' = out.sample_clusters
    /\ dirs' = out.dirs
    /\ csv' = out.csv
    /\ written' = out.written
    /\ last' = [op |-> op, index |-> IndexOf(arg), flag |-> flag, result |-> out.result,
                given |-> out.given, returned |-> out.returned,
                was_unset |-> clusters = None, samples |-> samples]
    /\ UNCHANGED <<toolVars, metaVars, prj, segVars>>

\* project.py:745: the Samples a call targets, "samples or self.samples"
SampleLists == { <<>>, <<"s1">>, <<"s2">>, <<"s2", "s1">> }
targeted(samples, all) == IF samples = <<>> THEN all ELSE samples

\* prj.set_clusters(c, write_to_disk=w, samples=samples)
SetClusters(c, w, samples) ==
    Apply(set_clusters(CurState, targeted(samples, NamesOf(1)), prj[1].results_dir, c, w),
          "set_clusters", c, w, targeted(samples, NamesOf(1)))

\* prj.set_clusters(write_to_disk=w): the clusters are read from the CSV file
LoadClusters(w) ==
    Apply(set_clusters(CurState, NamesOf(1), prj[1].results_dir, None, w),
          "set_clusters", None, w, NamesOf(1))

\* prj.clusters
ReadClusters ==
    Apply(clusters_property(CurState, NamesOf(1), prj[1].results_dir),
          "clusters", None, FALSE, NamesOf(1))

\* prj.cluster_cells(set_attribute=set_attribute)
ClusterCells(derived, made_dir, set_attribute) ==
    Apply(cluster_cells(CurState, NamesOf(1), prj[1].results_dir, derived, made_dir,
                        set_attribute),
          "cluster_cells", derived, set_attribute, NamesOf(1))

\* prj._rename_clusters(new_labels, save=save)
RenameClusters(new_labels, save) ==
    Apply(rename_clusters(CurState, NamesOf(1), prj[1].results_dir, new_labels, save),
          "_rename_clusters", None, save, NamesOf(1))

\* The CSV file of the cluster assignments (project.py:732) is replaced from
\* outside the program; its directory exists, the program's memory is not
\* touched.
CsvChanged(c) ==
    /\ SingleCellDir(prj[1].results_dir) \in dirs
    /\ csv' = to_csv(c)
    /\ csv' # csv
    /\ UNCHANGED <<clusters, sample_clusters, dirs, written, last>>
    /\ UNCHANGED <<toolVars, metaVars, prj, segVars>>

NextClusters ==
    \/ \E c \in DerivedSeries : CsvChanged(c)
    \/ \E c \in SeriesInputs, w \in BOOLEAN, samples \in SampleLists :
          SetClusters(c, w, samples)
    \/ \E w \in BOOLEAN : LoadClusters(w)
    \/ ReadClusters
    \/ \E c \in DerivedSeries, made_dir \in BOOLEAN, set_attribute \in BOOLEAN :
          ClusterCells(c, made_dir, set_attribute)
    \/ \E new_labels \in NewLabels, save \in BOOLEAN : RenameClusters(new_labels, save)

SpecClusters == InitClusters /\ [][NextClusters]_vars

(***************************************************************************)
(* prepare_stack on the stack of a ROI.                                    *)
(***************************************************************************)
InitOther ==
    /\ columns = AllColumns
    /\ metadata = <<>>
    /\ sample_name_attribute = DEFAULT_SAMPLE_NAME_ATTRIBUTE
    /\ toggle = TRUE
    /\ sample_grouping_attributes = <<>>
    /\ no_metadata = FALSE
    /\ processed_dir = NoProcessed
    /\ prj = [p \in ProjectIds |-> NoProject]
    /\ dirs = {Cwd}
    /\ clusters = None
    /\ sample_clusters = <<>>
    /\ csv = NoFile
    /\ written = None
    /\ last = NoCall

InitPrepare ==
    /\ InitOther
    /\ IdleTools
    /\ roi \in ROIs
    /\ files = [f \in FileNames |-> "absent"]
    /\ seg = NoSeg

PrepareStack(compartment) ==
    /\ LET out == prepare_stack(roi, compartment)
       IN  seg' = [NoSeg EXCEPT !.op = "prepare_stack", !.compartment = compartment,
                                !.result = IF out.err = "" THEN "ok" ELSE out.err,
                                !.image = out.image]
    /\ UNCHANGED <<toolVars, metaVars, prj, dirs, clusterVars, roi, files>>

Compartments == {"nuclear", "cytoplasm", "both", "membrane"}
Models == {"deepcell", "stardist", "cellpose"}

NextPrepare == \E compartment \in Compartments : PrepareStack(compartment)

SpecPrepare == InitPrepare /\ [][NextPrepare]_vars

(***************************************************************************)
(* segment_roi on a ROI whose mask and figure files may exist already.     *)
(***************************************************************************)
InitSegment ==
    /\ InitOther
    /\ IdleTools
    /\ roi \in SegmentedROIs
    /\ files \in [FileNames -> {"absent", "old"}]
    /\ seg = NoSeg

SegmentRoi(model, compartment, save, overwrite, plot) ==
    /\ LET out == segment_roi(roi, files, model, compartment, save, overwrite, plot)
       IN  /\ files' = out.files
           /\ seg' = [NoSeg EXCEPT !.op = "segment_roi", !.model = model,
                                   !.compartment = compartment, !.save = save,
                                   !.overwrite = overwrite, !.plot = plot,
                                   !.result = out.result, !.mask = out.mask,
                                   !.written = out.written]
    /\ UNCHANGED <<toolVars, metaVars, prj, dirs, clusterVars, roi>>

NextSegment ==
    \E model \in Models, compartment \in Compartments,
       save \in BOOLEAN, overwrite \in BOOLEAN, plot \in BOOLEAN :
        SegmentRoi(model, compartment, save, overwrite, plot)

SpecSegment == InitSegment /\ [][NextSegment]_vars

(***************************************************************************)
(* A run of the segment_stacks command over the TIFF arguments.            *)
(***************************************************************************)
CsvOf(tiff) == SubSeq(tiff, 1, Len(tiff) - 1) \o <<".csv">>

InitStacks ==
    /\ InitOther
    /\ roi = NoROI
    /\ files = [f \in FileNames |-> "absent"]
    /\ seg = NoSeg
    /\ \E a \in ArgSets, tiffs \in TiffLists(MaxTiffs) :
          args = [tiffs |-> tiffs, model |-> a.model, compartment |-> a.compartment,
                  channel_exclude |-> a.channel_exclude, save |-> a.save,
                  overwrite |-> a.overwrite, plot |-> a.plot]
    /\ \E with_csv \in SUBSET { t \in TiffPaths : t[Len(t)] = ".tiff" }, old \in BOOLEAN :
          LET inputs == { [path |-> t, content |-> StackContent] : t \in TiffPaths }
                            \cup { [path |-> CsvOf(t), content |-> LabelsContent(LabelsOf(t))] :
                                     t \in with_csv }
              outputs == { mask_file(t, args) : t \in TiffPaths }
                            \cup { fig_file(t, args) : t \in TiffPaths }
          IN  disk = inputs \cup
                     { [path |-> o, content |-> Written("old")] :
                         o \in IF old THEN { q \in outputs : \A f \in inputs : f.path # q }
                               ELSE {} }
    /\ run = [NoRun EXCEPT !.pc = "prepare", !.phase = "prepare", !.i = 1]
    /\ IdleStats
    /\ IdleAdj
    /\ IdleLookup
    /\ IdleIlastik

\* segment_stacks.py:53-72
PrepareRoi ==
    /\ run.pc = "prepare"
    /\ run.i <= Len(args.tiffs)
    /\ run' \in prepare_roi(run, disk, args)
    /\ UNCHANGED <<metaVars, prj, dirs, clusterVars, segVars, ilastikVars, lookupVars, statVars, adjVars, args, disk>>

\* segment_stacks.py:74-75: the first loop is left for the second
StartSegmentation ==
    /\ run.pc = "prepare"
    /\ run.i > Len(args.tiffs)
    /\ run' = [run EXCEPT !.pc = "segment", !.phase = "segment", !.i = 1]
    /\ UNCHANGED <<metaVars, prj, dirs, clusterVars, segVars, ilastikVars, lookupVars, statVars, adjVars, args, disk>>

\* segment_stacks.py:75-104
SegmentNext ==
    /\ run.pc = "segment"
    /\ run.i <= Len(run.rois)
    /\ LET out == segment_next(run, disk, args)
       IN  /\ run' = out.run
           /\ disk' = out.disk
    /\ UNCHANGED <<metaVars, prj, dirs, clusterVars, segVars, ilastikVars, lookupVars, statVars, adjVars, args>>

\* segment_stacks.py:106-107
Finish ==
    /\ run.pc = "segment"
    /\ run.i > Len(run.rois)
    /\ run' = [run EXCEPT !.pc = "done", !.ret = 0]
    /\ UNCHANGED <<metaVars, prj, dirs, clusterVars, segVars, ilastikVars, lookupVars, statVars, adjVars, args, disk>>

NextStacks == PrepareRoi \/ StartSegmentation \/ SegmentNext \/ Finish

SpecStacks == InitStacks /\ [][NextStacks]_vars

(***************************************************************************)
(* A call of sample_comparisons: the tests of the channel means, then the  *)
(* tests of the cluster counts, between the groups of one attribute.       *)
(***************************************************************************)
Elems(seq) == { seq[i] : i \in 1..Len(seq) }
Cells(items, groups) == { <<item, g>> : item \in Elems(items), g \in Elems(groups) }

InitStats ==
    /\ InitOther
    /\ roi = NoROI
    /\ files = [f \in FileNames |-> "absent"]
    /\ seg = NoSeg
    /\ IdleScript
    /\ IdleAdj
    /\ IdleLookup
    /\ IdleIlastik
    /\ \E library \in Libraries :
          stats = [NoStats EXCEPT !.pc = "channels", !.library = library]

\* project.py:859-917: every ROI has a mean of every channel
ChannelTests(groups, data) ==
    /\ stats.pc = "channels"
    /\ LET out == test_between_attributes(Channels, groups, data, stats.library)
       IN  stats' = [stats EXCEPT !.pc = IF out.err = "" THEN "clusters" ELSE "raised",
                                  !.error = out.err, !.channel = out.table]
    /\ UNCHANGED <<metaVars, prj, dirs, clusterVars, segVars, ilastikVars, lookupVars, scriptVars, adjVars>>

\* project.py:920-979: the clusters and the groups are those that have a
\* row in cluster_df
ClusterTests(data) ==
    /\ stats.pc = "clusters"
    /\ LET items == SelectSeq(Clusters,
                        LAMBDA c : \E g \in Elems(stats.channel.groups) : data[<<c, g>>] # <<>>)
           groups == SelectSeq(stats.channel.groups,
                        LAMBDA g : \E c \in Elems(Clusters) : data[<<c, g>>] # <<>>)
           out == test_between_attributes(items, groups, data, stats.library)
       IN  stats' = [stats EXCEPT !.pc = IF out.err = "" THEN "done" ELSE "raised",
                                  !.error = out.err, !.cluster = out.table]
    /\ UNCHANGED <<metaVars, prj, dirs, clusterVars, segVars, ilastikVars, lookupVars, scriptVars, adjVars>>

NextStats ==
    \/ \E groups \in GroupLists :
          \E data \in [Cells(Channels, groups) -> ChannelValues] : ChannelTests(groups, data)
    \/ \E data \in [Cells(Clusters, stats.channel.groups) -> ClusterValues] :
          ClusterTests(data)

SpecStats == InitStats /\ [][NextStats]_vars

(***************************************************************************)
(* A call of measure_adjacency: the workers of the pool finish one by one, *)
(* in any order.                                                           *)
(***************************************************************************)
InitAdjacency ==
    /\ InitOther
    /\ roi = NoROI
    /\ files = [f \in FileNames |-> "absent"]
    /\ seg = NoSeg
    /\ IdleScript
    /\ IdleStats
    /\ IdleLookup
    /\ IdleIlastik
    /\ \E graph \in [ProjectRois -> {"none", "old"}],
          fails_graph \in SUBSET ProjectRois,
          fails_freq \in { {}, { <<"s1", "r2">> } } :
          adj = [NoAdj EXCEPT
                   !.graph = [r \in ProjectRois |->
                                 IF graph[r] = "none" THEN NoGraph ELSE <<"old", r>>],
                   !.before = [r \in ProjectRois |->
                                 IF graph[r] = "none" THEN NoGraph ELSE <<"old", r>>],
                   !.fails_graph = fails_graph, !.fails_freq = fails_freq]

\* prj.measure_adjacency(samples=samples, rois=rois) is called
MeasureAdjacency(samples, rois) ==
    /\ adj.pc = "idle"
    /\ adj' = [measure_adjacency(adj, samples.list, rois.list)
                 EXCEPT !.samples = samples, !.selection = rois]
    /\ UNCHANGED <<metaVars, prj, dirs, clusterVars, segVars, ilastikVars, lookupVars, scriptVars, statVars>>

\* the worker of task i returns or raises
WorkerFinishes(i) ==
    /\ adj.pc \in {"graphs", "freqs"}
    /\ i \in adj.pending
    /\ adj' = [adj EXCEPT !.pending = @ \ {i}, !.done = Append(@, i)]
    /\ UNCHANGED <<metaVars, prj, dirs, clusterVars, segVars, ilastikVars, lookupVars, scriptVars, statVars>>

\* every worker of the graphs has finished
CollectGraphs ==
    /\ adj.pc = "graphs"
    /\ adj.pending = {}
    /\ adj' = collect_graphs(adj)
    /\ UNCHANGED <<metaVars, prj, dirs, clusterVars, segVars, ilastikVars, lookupVars, scriptVars, statVars>>

\* every worker of the frequencies has finished
CollectFreqs ==
    /\ adj.pc = "freqs"
    /\ adj.pending = {}
    /\ adj' = collect_freqs(adj)
    /\ UNCHANGED <<metaVars, prj, dirs, clusterVars, segVars, ilastikVars, lookupVars, scriptVars, statVars>>

NextAdjacency ==
    \/ \E samples \in SampleArgs, rois \in RoiArgs : MeasureAdjacency(samples, rois)
    \/ \E i \in 1..Cardinality(ProjectRois) : WorkerFinishes(i)
    \/ CollectGraphs
    \/ CollectFreqs

SpecAdjacency == InitAdjacency /\ [][NextAdjacency]_vars

(***************************************************************************)
(* Lookups of Samples and ROIs by name.                                    *)
(***************************************************************************)
InitLookup ==
    /\ InitOther
    /\ roi = NoROI
    /\ files = [f \in FileNames |-> "absent"]
    /\ seg = NoSeg
    /\ IdleScript
    /\ IdleStats
    /\ IdleAdj
    /\ IdleLookup
    /\ IdleIlastik

\* prj.get_samples(sample_names)
GetSamples(sample_names) ==
    /\ LET out == get_samples(sample_names)
       IN  lookup' = [op |-> "get_samples", names |-> sample_names.names,
                      kind |-> out.kind, value |-> out.value]
    /\ UNCHANGED <<metaVars, prj, dirs, clusterVars, segVars, ilastikVars, scriptVars, statVars, adjVars>>

\* prj.get_rois(roi_names)
GetRois(roi_names) ==
    /\ LET out == get_rois_named(roi_names)
       IN  lookup' = [op |-> "get_rois", names |-> roi_names.names,
                      kind |-> out.kind, value |-> out.value]
    /\ UNCHANGED <<metaVars, prj, dirs, clusterVars, segVars, ilastikVars, scriptVars, statVars, adjVars>>

NextLookup ==
    \/ \E sample_names \in NameArgs : GetSamples(sample_names)
    \/ \E roi_names \in NameArgs : GetRois(roi_names)

SpecLookup == InitLookup /\ [][NextLookup]_vars

(***************************************************************************)
(* A run of inspect_ilastik_model on a directory that holds the model.     *)
(***************************************************************************)
InitIlastik ==
    /\ InitOther
    /\ roi = NoROI
    /\ files = [f \in FileNames |-> "absent"]
    /\ seg = NoSeg
    /\ IdleScript
    /\ IdleStats
    /\ IdleAdj
    /\ lookup = NoLookup
    /\ \E a \in IlastikArgs :
          ilp = [NoIlastik EXCEPT
                   !.pc = "inspect", !.args = a,
                   !.disk = { [path |-> a.model_path,
                               content |-> ModelContent(ModelChannels, FALSE)] }]

IlastikStep(pc, next, requested, out) ==
    /\ ilp.pc = pc
    /\ ilp' = IF ~requested THEN [ilp EXCEPT !.pc = next]
              ELSE IF out.err # ""
              THEN [ilp EXCEPT !.pc = "raised", !.error = out.err, !.disk = out.disk,
                               !.steps = Append(@, out.step)]
              ELSE [ilp EXCEPT !.pc = next, !.disk = out.disk, !.steps = Append(@, out.step)]
    /\ UNCHANGED <<metaVars, prj, dirs, clusterVars, segVars, scriptVars, statVars, adjVars,
                   lookupVars>>

\* inspect_ilastik_model.py:32
Inspect ==
    IlastikStep("inspect", "plot", TRUE, inspect_ilastik_model(ilp.disk, ilp.args.model_path))

\* inspect_ilastik_model.py:34-35
Plot ==
    IlastikStep("plot", "extract", ilp.args.plot,
                plot_training_data(ilp.disk, ilp.args.model_path, ilp.args.channels_to_plot))

\* inspect_ilastik_model.py:37-38
Extract ==
    IlastikStep("extract", "convert", ilp.args.extract,
                extract_training_labels(ilp.disk, ilp.args.model_path,
                                        ilp.args.labels_output_file))

\* inspect_ilastik_model.py:40-45
Convert ==
    IlastikStep("convert", "return", ilp.args.convert,
                convert_model_data(ilp.disk, ilp.args.model_path,
                                   ilp.args.converted_model_output,
                                   ilp.args.channels_to_retain))

\* inspect_ilastik_model.py:47
Return ==
    /\ ilp.pc = "return"
    /\ ilp' = [ilp EXCEPT !.pc = "done", !.ret = 0]
    /\ UNCHANGED <<metaVars, prj, dirs, clusterVars, segVars, scriptVars, statVars, adjVars,
                   lookupVars>>

NextIlastik == Inspect \/ Plot \/ Extract \/ Convert \/ Return

SpecIlastik == InitIlastik /\ [][NextIlastik]_vars

(***************************************************************************)
(* Properties of Project construction.                                     *)
(***************************************************************************)
FilteredRows == ToggleFiltered(metadata)
Constructed(p) == prj[p].status \notin {"none", "FileExistsError", "FileNotFoundError"}
RowsOfKey(key) ==
    SelectSeq(FilteredRows, LAMBDA r : GroupKey(r, GroupingAttributes) = key)
FirstRowOfKey(key) ==
    CHOOSE n \in 1..Len(FilteredRows) :
        /\ GroupKey(FilteredRows[n], GroupingAttributes) = key
        /\ \A m \in 1..(n - 1) : GroupKey(FilteredRows[m], GroupingAttributes) # key

\* C1: a project constructed from a metadata table that has the sample-name
\* attribute (default grouping attributes) holds exactly one Sample for each
\* distinct value of that attribute in the toggle-filtered rows and no other
\* Sample, whether the attribute is the default one or not.
C1_OneSamplePerName ==
    \A p \in ProjectIds :
        ( /\ Constructed(p)
          /\ sample_name_attribute \in columns
          /\ sample_grouping_attributes = <<>> )
        => /\ prj[p].status = "ok"
           /\ { NamesOf(p)[i] : i \in 1..Len(NamesOf(p)) }
                = { FilteredRows[n][sample_name_attribute] : n \in 1..Len(FilteredRows) }
           /\ \A i, j \in 1..Len(NamesOf(p)) : NamesOf(p)[i] = NamesOf(p)[j] => i = j

\* C2: the metadata attributes passed to every Sample built are exactly the
\* columns (the column sample_name excepted) that take a single value across
\* the rows of the Sample's group, each with that value; a column that varies
\* within the group is never passed.
C2_ConstantColumnsPassed ==
    \A p \in ProjectIds : \A i \in 1..Len(prj[p].samples) :
        LET s == prj[p].samples[i]
            rows == RowsOfKey(s.key)
        IN  /\ rows # <<>>
            /\ DOMAIN s.attrs =
                  { c \in columns \ {"sample_name"} :
                      \A a, b \in 1..Len(rows) : rows[a][c] = rows[b][c] }
            /\ \A c \in DOMAIN s.attrs : \A a \in 1..Len(rows) : rows[a][c] = s.attrs[c]

\* C2 witness: a Sample whose group has several rows, with a column that
\* varies (not passed) and a constant column that is passed.
C2_Witness ==
    \E p \in ProjectIds : \E i \in 1..Len(prj[p].samples) :
        LET s == prj[p].samples[i]
        IN  /\ Len(s.metadata) > 1
            /\ DOMAIN s.attrs # {}
            /\ \E c \in columns \ {"sample_name"} : c \notin DOMAIN s.attrs

ActiveRows ==
    IF toggle /\ "toggle" \in columns
    THEN SelectSeq(metadata, LAMBDA r : r.toggle)
    ELSE metadata
ActiveRowsOfKey(key) ==
    SelectSeq(ActiveRows, LAMBDA r : GroupKey(r, GroupingAttributes) = key)

\* C23: with toggle=True and a metadata column 'toggle' the Samples of a
\* project are built from the rows whose toggle is true and from no other
\* row; with toggle=False, or without that column, from all rows: every
\* Sample is the group of those rows under its key, and a project whose
\* construction completed has a Sample for each of those rows.
C23_ToggleFiltersRows ==
    \A p \in ProjectIds :
        /\ \A i \in 1..Len(prj[p].samples) :
              LET s == prj[p].samples[i]
                  rows == ActiveRowsOfKey(s.key)
              IN  /\ rows # <<>>
                  /\ s.metadata = IF Len(rows) > 1 THEN rows ELSE <<>>
                  /\ s.name = rows[1][sample_name_attribute]
        /\ prj[p].status = "ok" =>
              \A n \in 1..Len(ActiveRows) : \E i \in 1..Len(prj[p].samples) :
                  prj[p].samples[i].key = GroupKey(ActiveRows[n], GroupingAttributes)

\* C23 happens: a project was built with toggling from a table in which a
\* row without an active toggle shares the key of a Sample and another such
\* row has a key of its own.
C23_Witness ==
    /\ toggle
    /\ "toggle" \in columns
    /\ prj[1].status = "ok"
    /\ \E i \in 1..Len(prj[1].samples), n \in 1..Len(metadata) :
          /\ ~metadata[n].toggle
          /\ GroupKey(metadata[n], GroupingAttributes) = prj[1].samples[i].key
    /\ \E n \in 1..Len(metadata) :
          /\ ~metadata[n].toggle
          /\ \A i \in 1..Len(prj[1].samples) :
                GroupKey(metadata[n], GroupingAttributes) # prj[1].samples[i].key

\* C7: a construction with a results directory that already holds an earlier
\* construction's directory completes and yields the same Samples as the
\* earlier one.
C7_ConstructionRepeatable ==
    \A p, q \in ProjectIds :
        ( /\ p # q
          /\ prj[p].status = "ok"
          /\ prj[q].status # "none"
          /\ prj[q].results_dir = prj[p].results_dir )
        => /\ prj[q].status = "ok"
           /\ prj[q].samples = prj[p].samples

\* the rows of the table have no ROI stack in the processed directory
NoRoiFound ==
    \A n \in 1..Len(ToggleFiltered(Table)) :
        sample_rois(ToggleFiltered(Table)[n].sample_name) = <<>>

\* C13: the construction of a project for which no ROI can be found (no
\* metadata and a missing or empty processed directory, or Samples without
\* ROI stacks) completes, with the warning about ROIs and an empty ROI list,
\* and with an empty Sample list when there is no row to build Samples from.
C13_NothingFoundCompletes ==
    \A p \in ProjectIds :
        (prj[p].status # "none" /\ NoRoiFound) =>
            /\ prj[p].status = "ok"
            /\ \E i \in 1..Len(prj[p].warned) : prj[p].warned[i] = "no ROIs"
            /\ prj[p].rois = <<>>
            /\ ToggleFiltered(Table) = <<>> => prj[p].samples = <<>>

(***************************************************************************)
(* Properties of the cluster assignments.                                  *)
(***************************************************************************)
SameMapping(a, b) ==
    /\ DOMAIN a.data = DOMAIN b.data
    /\ \A k \in DOMAIN a.data : a.data[k] = b.data[k]

\* C4: once a cluster assignment was written to the CSV file (by
\* set_clusters with write_to_disk, or by cluster_cells), loading it back
\* with set_clusters() completes and the project's clusters have the keys
\* and the labels that were written.
C4_CsvRoundTrip ==
    ( /\ last.op = "set_clusters"
      /\ last.index.none
      /\ written # None )
    => /\ last.result = "ok"
       /\ SameMapping(clusters, written)

\* C5: set_clusters fails an assertion on every Series whose index is not a
\* MultiIndex with the level names (sample, roi, obj_id), and then the
\* project's clusters and every Sample's clusters are as before the call.
C5_BadIndexFailsAssertion ==
    [][ ( /\ last'.op = "set_clusters"
          /\ ~last'.index.none
          /\ ~(last'.index.multi /\ last'.index.levels = <<"sample", "roi", "obj_id">>) )
        => /\ last'.result = "AssertionError"
           /\ clusters' = clusters
           /\ sample_clusters' = sample_clusters ]_vars

\* C6: reading Project.clusters while the in-memory clusters are unset and
\* the CSV file exists completes, returns the mapping stored in the file and
\* gives every Sample its part of it.
C6_ClustersReadFromCsv ==
    ( /\ last.op = "clusters"
      /\ last.was_unset
      /\ csv.exists )
    => /\ last.result = "ok"
       /\ SameMapping(last.returned, read_csv(csv).series)
       /\ clusters = last.returned
       /\ \A n \in SampleNames : sample_clusters[n] = loc(last.returned, n)

\* C17: while the project's clusters are set in memory, a read of
\* Project.clusters completes, returns the stored mapping and reads nothing
\* from the CSV file: the stored clusters of the project and of the Samples,
\* the file and the directories are as before, whatever the file holds.
C17_ReadReturnsStored ==
    [][ (clusters # None /\ ReadClusters)
        => /\ last'.result = "ok"
           /\ last'.returned = clusters
           /\ UNCHANGED <<clusters, sample_clusters, csv, dirs, written>> ]_vars

\* C17 happens: clusters are stored, the CSV file was changed afterwards and
\* holds another mapping, and a read returned the stored one.
C17_Witness ==
    /\ last.op = "clusters"
    /\ ~last.was_unset
    /\ last.result = "ok"
    /\ last.returned = clusters
    /\ csv.exists
    /\ read_csv(csv).err = ""
    /\ ~SameMapping(read_csv(csv).series, clusters)

\* The entries of the mapping c under the Sample name n, without the name.
EntriesOf(c, n) == { <<key[2], key[3]>> : key \in { q \in DOMAIN c.data : q[1] = n } }

\* The Sample n holds exactly the entries of c under its name.
HoldsPartOf(n, c) ==
    /\ sample_clusters[n].set
    /\ DOMAIN sample_clusters[n].data = EntriesOf(c, n)
    /\ \A k \in EntriesOf(c, n) : sample_clusters[n].data[k] = c.data[<<n, k[1], k[2]>>]

Targets(samples) == { samples[i] : i \in 1..Len(samples) }

C19_ClusterCellsStores ==
    [][ \A d \in DerivedSeries, made_dir \in BOOLEAN, set_attribute \in BOOLEAN :
          (ClusterCells(d, made_dir, set_attribute) /\ csv' = to_csv(d))
          => IF set_attribute
             THEN /\ last'.result = "ok"
                  /\ last'.returned = None
                  /\ clusters' # None
                  /\ SameMapping(clusters', d)
             ELSE /\ last'.result = "ok"
                  /\ last'.returned = d
                  /\ clusters' = clusters ]_vars

\* The mapping c has entries for every one of the Samples.
Covers(c, samples) == \A n \in Targets(samples) : EntriesOf(c, n) # {}

\* C20: every set_clusters call on a project, the first as well as any
\* later one, completes when it is given a 3-level mapping with entries for
\* the targeted Samples, or none while the CSV file exists; afterwards the
\* project's clusters are the mapping of that call, and the CSV file holds
\* it with write_to_disk=True and is unchanged with write_to_disk=False.
C20_SetClustersRepeatable ==
    [][ /\ \A c \in ValidSeries, w \in BOOLEAN, samples \in SampleLists :
             (SetClusters(c, w, samples) /\ Covers(c, targeted(samples, NamesOf(1))))
             => /\ last'.result = "ok"
                /\ clusters' = c
                /\ csv' = IF w THEN to_csv(c) ELSE csv
        /\ \A w \in BOOLEAN :
             (LoadClusters(w) /\ read_csv(csv).err = "")
             => /\ last'.result = "ok"
                /\ SameMapping(clusters', read_csv(csv).series) ]_vars

\* C21: _rename_clusters(new_labels) on a project with clusters completes and
\* keeps the keys; every label that is a key of new_labels becomes its
\* mapped value and every other label stays; with save=True the CSV file and
\* the project's clusters then hold the same renamed mapping.
C21_RenameKeepsKeys ==
    [][ \A new_labels \in NewLabels, save \in BOOLEAN :
          (clusters # None /\ RenameClusters(new_labels, save))
          => /\ last'.result = "ok"
             /\ DOMAIN clusters'.data = DOMAIN clusters.data
             /\ \A k \in DOMAIN clusters.data :
                   clusters'.data[k] = IF clusters.data[k] \in DOMAIN new_labels
                                       THEN new_labels[clusters.data[k]]
                                       ELSE clusters.data[k]
             /\ save => /\ read_csv(csv').err = ""
                        /\ SameMapping(read_csv(csv').series, clusters') ]_vars

(***************************************************************************)
(* Properties of the segmentation.                                         *)
(***************************************************************************)
\* C8: the mask segment_roi returns has the height and width of the ROI's
\* stack: H x W for the compartments nuclear and cytoplasm, H x W x 2 for
\* both, whatever the size the prediction is made at.
C8_MaskHasStackShape ==
    (seg.op = "segment_roi" /\ seg.result = "ok") =>
        /\ seg.compartment \in {"nuclear", "cytoplasm"} => seg.mask = roi.shape
        /\ seg.compartment = "both" => seg.mask = roi.shape \o <<2>>

\* C8 witness: a deepcell segmentation of both compartments of a stack that
\* has not the size of the prediction.
C8_Witness ==
    /\ seg.op = "segment_roi" /\ seg.result = "ok"
    /\ seg.model = "deepcell" /\ seg.compartment = "both"
    /\ roi.shape = <<3, 5>>
    /\ seg.mask = <<3, 5, 2>>

\* C9: prepare_stack returns, of the channels left after the exclusion, the
\* mean of exactly those whose label contains DNA as the nuclear image, the
\* mean of exactly those whose label matches none of DNA, Ki67, SMA as the
\* cytoplasm image, and for both the pair (nuclear, cytoplasm).
C9_ChannelsByPattern ==
    (seg.op = "prepare_stack" /\ seg.result = "ok") =>
        LET left == { i \in 1..Len(roi.channel_labels) :
                        roi.channel_exclude.none \/ ~roi.channel_exclude.mask[i] }
            nuclear == { i \in left : roi.channel_labels[i] = "DNA1" }
            cytoplasm == { i \in left : roi.channel_labels[i] = "CD45" }
        IN  /\ seg.compartment = "nuclear" => seg.image.parts = <<nuclear>>
            /\ seg.compartment = "cytoplasm" => seg.image.parts = <<cytoplasm>>
            /\ seg.compartment = "both" => seg.image.parts = <<nuclear, cytoplasm>>

\* C10: segment_roi with save writes the mask file of every compartment it
\* produced a mask for (nuclei for nuclear, cell for cytoplasm, both for both)
\* and the figure if one is plotted, a file that exists only when overwrite is
\* set; without save, and when the call fails, it writes no file; the files
\* it does not write are left as they are.
C10_FilesWritten ==
    [][ seg'.op = "segment_roi" =>
          LET masks == CASE seg'.compartment = "nuclear" -> {"nuclei_mask"}
                         [] seg'.compartment = "cytoplasm" -> {"cell_mask"}
                         [] seg'.compartment = "both" -> {"cell_mask", "nuclei_mask"}
                         [] OTHER -> {}
              wanted == masks \cup (IF seg'.plot THEN {"segmentation_svg"} ELSE {})
          IN  /\ seg'.written =
                   IF seg'.result = "ok" /\ seg'.save
                   THEN { f \in wanted : seg'.overwrite \/ files[f] = "absent" }
                   ELSE {}
              /\ \A f \in FileNames :
                   files'[f] = IF f \in seg'.written THEN "new" ELSE files[f] ]_vars

\* C10 witness: a saving call without overwrite for both compartments that
\* wrote the nuclei mask and left the cell mask that existed.
C10_Witness ==
    /\ seg.op = "segment_roi" /\ seg.result = "ok"
    /\ seg.save /\ ~seg.overwrite /\ seg.compartment = "both"
    /\ seg.written = {"nuclei_mask"}
    /\ files["cell_mask"] = "old"

\* the model/compartment combinations segment_roi is said to reject
Rejected(model, compartment) ==
    \/ model \notin {"deepcell", "stardist"}
    \/ compartment \notin {"nuclear", "cytoplasm", "both"}
    \/ model = "stardist" /\ compartment # "nuclear"

\* C11 as stated: segment_roi with a model other than deepcell and stardist,
\* a compartment other than nuclear, cytoplasm and both, or stardist with a
\* compartment other than nuclear, fails with an assertion error and leaves
\* every mask and figure file as it was.
C11_RejectedFailsAssertion ==
    [][ (seg'.op = "segment_roi" /\ Rejected(seg'.model, seg'.compartment))
        => /\ seg'.result = "AssertionError"
           /\ files' = files ]_vars

\* C11 amended: every such call fails and leaves every mask and figure file
\* as it was; the failure is an assertion error, except that stardist with
\* both fails with the ValueError of prepare_stack when the nuclear and the
\* cytoplasm image of the stack differ in shape.
C11_RejectedFails ==
    [][ (seg'.op = "segment_roi" /\ Rejected(seg'.model, seg'.compartment))
        => /\ seg'.result \in {"AssertionError", "ValueError"}
           /\ seg'.result = "ValueError"
                 => seg'.model = "stardist" /\ seg'.compartment = "both"
           /\ seg'.written = {}
           /\ files' = files ]_vars

\* C11 witness: a saving, overwriting stardist call for the cytoplasm that
\* failed the assertion with the files that existed left in place.
C11_Witness ==
    /\ seg.op = "segment_roi" /\ seg.model = "stardist" /\ seg.compartment = "cytoplasm"
    /\ seg.save /\ seg.overwrite
    /\ seg.result = "AssertionError"
    /\ files["cell_mask"] = "old"

(***************************************************************************)
(* Properties of the segment_stacks command.                               *)
(***************************************************************************)
Accompanied(tiff) == Exists(disk, CsvOf(tiff))

\* C12: in a run of segment_stacks, a TIFF argument without an accompanying
\* channel-labels CSV file is warned about and skipped and never makes the
\* run fail; the TIFF arguments that have one are the ROIs that are
\* segmented, in the order of the command line; a run that gets through its
\* ROIs returns 0, and a run in which every TIFF is skipped always does.
C12_MissingCsvSkipped ==
    /\ run.phase = "prepare" => run.pc # "raised"
    /\ run.phase = "segment" =>
          /\ run.warnings = SelectSeq(args.tiffs, LAMBDA t : ~Accompanied(t))
          /\ [i \in 1..Len(run.rois) |-> run.rois[i].stack_file]
                = SelectSeq(args.tiffs, LAMBDA t : Accompanied(t))
          /\ \A i \in 1..Len(run.segmented) : run.segmented[i] = run.rois[i].stack_file
          /\ run.rois = <<>> => run.pc # "raised"
    /\ run.pc = "done" =>
          /\ run.ret = 0
          /\ Len(run.segmented) = Len(run.rois)

(***************************************************************************)
(* Properties of sample_comparisons.                                       *)
(***************************************************************************)
TablesBuilt ==
    (IF stats.pc \in {"clusters", "done"} THEN {stats.channel} ELSE {})
        \cup (IF stats.pc = "done" THEN {stats.cluster} ELSE {})

FailingRois ==
    { r \in Elems(adj.missing) : r \in adj.fails_graph }

\* C15: a call of measure_adjacency in which the graph construction of a
\* selected ROI fails ends with the error of a worker of the graphs, and no
\* ROI's stored graph differs from the one it had before the call, while
\* the workers run as after the error.
C15_FailureAssignsNothing ==
    /\ (adj.pc \in {"graphs", "freqs", "done", "raised"} /\ FailingRois # {}) =>
          /\ adj.pc \in {"graphs", "raised"}
          /\ adj.graph = adj.before
          /\ adj.pc = "raised" =>
                /\ adj.error[1] = "graph"
                /\ adj.error[2] \in FailingRois
    /\ (adj.pc = "raised" /\ adj.error[1] = "graph") => FailingRois # {}

\* C15 witness: a call over three ROIs without a graph that failed for one
\* ROI after the workers of the two others had returned their graphs.
C15_Witness ==
    /\ adj.pc = "raised"
    /\ Len(adj.missing) = 3
    /\ Cardinality(FailingRois) = 1
    /\ adj.missing[adj.done[3]] \in FailingRois

\* C16: after the graphs are collected every ROI that had no graph holds the
\* graph computed from that ROI, and when the call is done every frequency
\* table is labelled with the sample and the ROI it was computed from, in
\* whatever order the workers finished.
C16_ResultsMatchRois ==
    /\ adj.pc \in {"freqs", "done"} =>
          \A r \in ProjectRois :
              adj.graph[r] = IF r \in Elems(adj.missing) THEN <<"graph", r>>
                             ELSE adj.before[r]
    /\ adj.pc = "done" =>
          /\ Len(adj.melted) = Len(adj.rois)
          /\ \A i \in 1..Len(adj.melted) :
                /\ adj.melted[i].table = <<"freqs", <<adj.melted[i].sample, adj.melted[i].roi>> >>
                /\ <<adj.melted[i].sample, adj.melted[i].roi>> = adj.rois[i]

\* C16 witness: a finished call that assigned the graphs of several ROIs and
\* whose workers of the frequencies did not finish in the order of the tasks.
C16_Witness ==
    /\ adj.pc = "done"
    /\ Len(adj.missing) >= 2
    /\ Len(adj.melted) >= 2
    /\ adj.done # [i \in 1..Len(adj.done) |-> i]

\* C22: a call of measure_adjacency starts workers of the graphs exactly for
\* the selected ROIs that have no graph; at every point of the call a ROI
\* that had a graph, or is not selected, holds the graph it had before; and
\* when the call has completed every selected ROI has a graph.
C22_OnlyMissingComputed ==
    adj.pc # "idle" =>
       /\ Elems(adj.missing) = { r \in Elems(adj.rois) : adj.before[r] = NoGraph }
       /\ \A r \in ProjectRois :
             (adj.before[r] # NoGraph \/ r \notin Elems(adj.rois))
             => adj.graph[r] = adj.before[r]
       /\ adj.pc = "done" => \A r \in Elems(adj.rois) : adj.graph[r] # NoGraph

\* C22 happens: a completed call over a selection with a ROI that had a
\* graph and one that had none, while a ROI outside of it has none.
C22_Witness ==
    /\ adj.pc = "done"
    /\ \E r \in Elems(adj.rois) : adj.before[r] # NoGraph /\ adj.graph[r] = adj.before[r]
    /\ \E r \in Elems(adj.rois) : adj.before[r] = NoGraph /\ adj.graph[r] = GraphOf(r)
    /\ \E r \in ProjectRois \ Elems(adj.rois) : adj.graph[r] = NoGraph

\* the tables sample_comparisons has saved
TablesSaved ==
    (IF stats.pc \in {"clusters", "done"} THEN {stats.channel} ELSE {})
        \cup (IF stats.pc = "done" THEN {stats.cluster} ELSE {})

\* C24: in the saved tables of the channels and of the clusters no row has
\* a group1 containing 'Healthy', and the log2_fold of every row, swapped or
\* not, is that of the row's group1 against the row's group2.
C24_HealthyInSecondColumn ==
    \A t \in TablesSaved : \A i \in 1..Len(t.saved) :
        LET r == t.saved[i]
        IN  /\ ~HasHealthy(r.group1)
            /\ r.group1 \in Elems(t.groups)
            /\ r.group2 \in Elems(t.groups)
            /\ r.log2_fold = log2_fold(t.data[<<r.item, r.group1>>],
                                       t.data[<<r.item, r.group2>>])

\* The Samples a call selects as the claim reads the arguments: those listed,
\* all of the project when the argument is not given.
SelectedSamples(samples) ==
    IF samples.given THEN [i \in 1..Len(samples.list) |-> ProjectSamples[samples.list[i]]]
    ELSE ProjectSamples
FirstIn(seq, x) == CHOOSE i \in 1..Len(seq) : seq[i] = x /\ \A j \in 1..(i - 1) : seq[j] # x
SampleOf(r) == CHOOSE sample \in Elems(ProjectSamples) : r \in Elems(sample.rois)

\* C25: the ROIs measure_adjacency gets from _get_rois(samples, rois) are
\* exactly the ROIs of the selected Samples (of all Samples when samples is
\* not given) that, when rois is given, are members of rois; each ROI occurs
\* once, and they are ordered by Sample and then by position in the Sample.
C25_SelectedRoisOnce ==
    adj.pc # "idle" =>
       LET chosen == SelectedSamples(adj.samples)
           R == adj.rois
       IN  /\ Elems(R) = { r \in ProjectRois :
                             /\ \E i \in 1..Len(chosen) : r \in Elems(chosen[i].rois)
                             /\ adj.selection.given => r \in Elems(adj.selection.list) }
           /\ \A i, j \in 1..Len(R) : R[i] = R[j] => i = j
           /\ \A i, j \in 1..Len(R) :
                 i < j =>
                    \/ FirstIn(chosen, SampleOf(R[i])) < FirstIn(chosen, SampleOf(R[j]))
                    \/ /\ SampleOf(R[i]) = SampleOf(R[j])
                       /\ FirstIn(SampleOf(R[i]).rois, R[i]) < FirstIn(SampleOf(R[j]).rois, R[j])

\* C26: a lookup by name gives the single match when exactly one Sample (or
\* ROI) of the project has its name among the names, the matches in the
\* project's order when several have, and a ValueError when none has.
C26_LookupByName ==
    lookup.op # "none" =>
       LET all == IF lookup.op = "get_samples"
                  THEN [i \in 1..Len(ProjectSamples) |-> ProjectSamples[i].name]
                  ELSE [i \in 1..Len(project_rois) |-> project_rois[i][2]]
           NameOf(x) == IF lookup.op = "get_samples" THEN x.name ELSE x[2]
           matches == SelectSeq(all, LAMBDA n : n \in lookup.names)
       IN  /\ [i \in 1..Len(lookup.value) |-> NameOf(lookup.value[i])] = matches
           /\ lookup.kind = CASE Len(matches) = 0 -> "ValueError"
                               [] Len(matches) = 1 -> "one"
                               [] OTHER -> "list"

\* the pass of the second loop that segments the ROI of the stack tiff
Segmented(tiff) ==
    /\ SegmentNext
    /\ run'.pc = "segment"
    /\ run.rois[run.i].stack_file = tiff
NewWrites == SubSeq(run'.wrote, Len(run.wrote) + 1, Len(run'.wrote))

\* C27: the pass that segments a ROI writes the ROI's mask file if and only
\* if saving is enabled and --overwrite is given or the file does not exist
\* yet, and the file then holds the mask; with --no-save the pass writes no
\* file at all.
C27_MaskWrittenIffSaved ==
    [][ \A tiff \in TiffPaths :
          Segmented(tiff) =>
             LET mf == mask_file(tiff, args)
                 writes == \E i \in 1..Len(NewWrites) :
                              NewWrites[i] = [path |-> mf, kind |-> "mask"]
             IN  /\ writes <=> (args.save /\ (args.overwrite \/ ~Exists(disk, mf)))
                 /\ writes => Exists(disk', mf) /\ Content(disk', mf) = Written("mask")
                 /\ ~writes => /\ Exists(disk', mf) <=> Exists(disk, mf)
                               /\ Exists(disk, mf) => Content(disk', mf) = Content(disk, mf)
                 /\ ~args.save => disk' = disk /\ NewWrites = <<>> ]_vars

\* C27 happens: in a run with saving enabled and without --overwrite that
\* segmented the same stack twice, the first pass wrote the missing mask
\* file and the second kept it.
C27_Witness ==
    /\ run.pc = "done"
    /\ args.save
    /\ ~args.overwrite
    /\ Len(run.segmented) = 2
    /\ Cardinality({ j \in 1..Len(run.wrote) : run.wrote[j].kind = "mask" }) = 1
    /\ Content(disk, mask_file(run.segmented[2], args)) = Written("mask")

\* the input files of a run: the stacks named on the command line and their
\* channel-labels CSV files
InputPaths ==
    { args.tiffs[i] : i \in 1..Len(args.tiffs) }
        \cup { CsvOf(args.tiffs[i]) : i \in 1..Len(args.tiffs) }

\* C28: a run of segment_stacks writes no mask and no figure to the path of
\* an input stack or of its channel-labels CSV file, and every input stack
\* still holds its stack, whatever the flags and the names of the stacks.
C28_InputsNotWritten ==
    /\ \A j \in 1..Len(run.wrote) : run.wrote[j].path \notin InputPaths
    /\ \A i \in 1..Len(args.tiffs) : Content(disk, args.tiffs[i]) = StackContent

\* C29: the convert step leaves the input model file as it was: after it,
\* completed or failed, the file at the input path holds the model it held
\* when the command was started.
C29_InputModelUnchanged ==
    (\E i \in 1..Len(ilp.steps) : ilp.steps[i].name = "convert")
    => /\ Exists(ilp.disk, ilp.args.model_path)
       /\ Content(ilp.disk, ilp.args.model_path) = ModelContent(ModelChannels, FALSE)

\* C30: the steps of a run are the inspection and then, of plot, extract
\* and convert, those requested, in that order; a plot without
\* --channels-to-plot shows the mean over the channels, a conversion without
\* --keep-channels leaves the last channel only, and the run returns 0.
C30_OmittedOptionsDefault ==
    /\ ilp.pc # "idle" => ilp.pc # "raised"
    /\ ilp.pc = "done" =>
          /\ ilp.ret = 0
          /\ [i \in 1..Len(ilp.steps) |-> ilp.steps[i].name]
                = <<"inspect">> \o (IF ilp.args.plot THEN <<"plot">> ELSE <<>>)
                               \o (IF ilp.args.extract THEN <<"extract">> ELSE <<>>)
                               \o (IF ilp.args.convert THEN <<"convert">> ELSE <<>>)
    /\ \A i \in 1..Len(ilp.steps) :
          /\ (ilp.steps[i].name = "plot" /\ ilp.args.channels_to_plot = "")
                => ilp.steps[i].channels = "mean"
          /\ (ilp.steps[i].name = "convert" /\ ~ilp.args.channels_to_retain.given
                 /\ ilp.pc # "raised")
                => Content(ilp.disk, ilp.steps[i].file)
                      = ModelContent(<<ModelChannels[Len(ModelChannels)]>>, FALSE)

====
